---- MODULE Spec2Model ----
(***************************************************************************)
(* Orthogonal edge routing and grid placement of veschin/d2 (wueortho and  *)
(* d2gridrouter packages).                                                 *)
(*                                                                         *)
(* Coordinates are float64 pixels in the source.  The model keeps them as  *)
(* integers in units of 1/60 pixel (Px), so that halves of cell sizes and  *)
(* the port parameters t = (i+1)/(N+1), N <= 5, are exact.                 *)
(***************************************************************************)
EXTENDS Integers, Sequences, FiniteSets, TLC

VARIABLES
    pc,        \* position of the operation being modelled
    sIn,       \* simplifyRoute: the points handed in
    sOut,      \* simplifyRoute: the points returned
    rg,        \* RoutingGraph: Nodes (id -> position), Adj (id -> edges)
    djSrc,     \* dijkstraRoute: srcNode
    djDst,     \* dijkstraRoute: dstNode
    dj,        \* dijkstraRoute: best, parent, visited, pq of the running search
    djPath,    \* dijkstraRoute: the returned path (<<>> is nil)
    ports,     \* routeAllEdges: PortAssignment, one (Src, Dst) pair per edge
    order,     \* routeAllEdges: the routing order (edge indices)
    oi,        \* routeAllEdges: position of the loop in order
    routedSegments, \* routeAllEdges: segments of already-routed edges
    routes,    \* routeAllEdges: the routes written so far (edge index -> points)
    g,         \* the graph laid out: Objects (sizes), Edges, Direction
    placement, \* gridPlacement: node index -> grid cell
    occupied,  \* gridPlacement: the set of occupied cells
    queue,     \* gridPlacement: the BFS queue
    visited,   \* gridPlacement: the visited nodes
    bfsCur,    \* gridPlacement: cur, the node whose neighbours are being placed
    pending,   \* gridPlacement: its sorted neighbours still to place
    li,        \* localImprove: iter, improved, baseline and loop indices
    info,      \* gridInfo: the result of gridPlacement
    edgePorts, \* gridRouteEdges: faces and port positions per edge
    edgeRoute, \* gridRouteEdges: e.Route per edge
    routeIdx,  \* gridRouteEdges: the edge whose route is constructed next
    nIn,       \* nudgeRoutes: the routes, channels and ordering handed in
    nRoutes,   \* nudgeRoutes: routes, whose points are moved in place
    nBundles,  \* nudgeRoutes: the bundles the loop has not visited yet
    nApplied,  \* nudgeRoutes: the bundles nudged so far, with their positions
    callArgs,  \* a function under test: its arguments
    callResult \* a function under test: the value it returned

vars == <<pc, sIn, sOut, rg, djSrc, djDst, dj, djPath,
          ports, order, oi, routedSegments, routes,
          g, placement, occupied, queue, visited, bfsCur, pending, li, info,
          edgePorts, edgeRoute, routeIdx,
          nIn, nRoutes, nBundles, nApplied, callArgs, callResult>>

simplifyVars == <<sIn, sOut>>
dijkstraVars == <<rg, djSrc, djDst, dj, djPath>>
corridorVars == <<ports, order, oi, routedSegments, routes>>
bfsVars == <<placement, occupied, queue, visited, bfsCur, pending, li>>
placeVars == <<g, placement, occupied, queue, visited, bfsCur, pending, li, info>>
routeVars == <<edgePorts, edgeRoute, routeIdx>>
nudgeVars == <<nIn, nRoutes, nBundles, nApplied>>
callVars == <<callArgs, callResult>>

\* The variables of the operations a specification does not exercise.
SimplifyIdle == sIn = <<>> /\ sOut = <<>>
DijkstraIdle ==
    /\ rg = [Nodes |-> <<>>, Adj |-> <<>>]
    /\ djSrc = -1 /\ djDst = -1 /\ dj = <<>> /\ djPath = <<>>
CorridorIdle ==
    /\ ports = <<>> /\ order = <<>> /\ oi = 0
    /\ routedSegments = <<>> /\ routes = <<>>
BfsIdle ==
    /\ placement = <<>> /\ occupied = {} /\ queue = <<>> /\ visited = {}
    /\ bfsCur = -1 /\ pending = <<>> /\ li = <<>>
PlaceIdle == g = <<>> /\ info = <<>> /\ BfsIdle
RouteIdle == edgePorts = <<>> /\ edgeRoute = <<>> /\ routeIdx = 0
NudgeIdle == nIn = <<>> /\ nRoutes = <<>> /\ nBundles = {} /\ nApplied = {}
CallIdle == callArgs = <<>> /\ callResult = <<>>

----------------------------------------------------------------------------
(* Units and small helpers *)

Px(n) == 60 * n

Abs(x) == IF x < 0 THEN -x ELSE x

Min2(a, b) == IF a < b THEN a ELSE b

Max2(a, b) == IF a > b THEN a ELSE b

Pt(x, y) == [x |-> x, y |-> y]

\* float64 rounds every sum to 53 significant bits.  The model rounds to
\* fewer significant bits of its 1/60 px unit (round half to even), so that
\* sums of small and large weights lose low bits as they do in the source.
FloatLimit == 2 ^ 15

RECURSIVE Ulp(_, _)
Ulp(a, q) == IF a \div q < FloatLimit THEN q ELSE Ulp(a, 2 * q)

FRound(x) ==
    LET a == Abs(x)
        q == Ulp(a, 1)
        m == a \div q
        r == a % q
        up == 2 * r > q \/ (2 * r = q /\ m % 2 = 1)
        v == (IF up THEN m + 1 ELSE m) * q
    IN  IF x < 0 THEN -v ELSE v

FAdd(a, b) == FRound(a + b)

FSub(a, b) == FRound(a - b)

----------------------------------------------------------------------------
(* simplifyRoute (d2gridrouter/router.go) *)

\* const tol = 0.5
tol == Px(1) \div 2

nearEq(a, b) == Abs(a - b) < tol

\* First pass: remove consecutive duplicates.
RECURSIVE DedupFrom(_, _, _)
DedupFrom(points, i, deduped) ==
    IF i > Len(points) THEN deduped
    ELSE LET prev == deduped[Len(deduped)] IN
         IF ~nearEq(points[i].x, prev.x) \/ ~nearEq(points[i].y, prev.y)
         THEN DedupFrom(points, i + 1, Append(deduped, points[i]))
         ELSE DedupFrom(points, i + 1, deduped)

\* The snapping of a real bend to its neighbours (curr.X = prev.X, ...).
SnapBend(prev, curr, next) ==
    LET c1 == IF nearEq(prev.x, curr.x) THEN [curr EXCEPT !.x = prev.x]
              ELSE IF nearEq(prev.y, curr.y) THEN [curr EXCEPT !.y = prev.y]
              ELSE curr
    IN  IF nearEq(c1.x, next.x) THEN [c1 EXCEPT !.x = next.x]
        ELSE IF nearEq(c1.y, next.y) THEN [c1 EXCEPT !.y = next.y]
        ELSE c1

\* Second pass: remove collinear intermediate points, snap the others.
RECURSIVE CollinearFrom(_, _, _)
CollinearFrom(deduped, i, result) ==
    IF i > Len(deduped) - 1 THEN result
    ELSE LET prev == result[Len(result)]
             next == deduped[i + 1]
             curr == deduped[i]
             sameX == nearEq(prev.x, curr.x) /\ nearEq(curr.x, next.x)
             sameY == nearEq(prev.y, curr.y) /\ nearEq(curr.y, next.y)
         IN  IF sameX \/ sameY
             THEN CollinearFrom(deduped, i + 1, result)
             ELSE CollinearFrom(deduped, i + 1,
                                Append(result, SnapBend(prev, curr, next)))

\* Snap last point to alignment with previous.
SnapLast(prevPt, last) ==
    IF nearEq(prevPt.x, last.x) THEN [last EXCEPT !.x = prevPt.x]
    ELSE IF nearEq(prevPt.y, last.y) THEN [last EXCEPT !.y = prevPt.y]
    ELSE last

simplifyRoute(points) ==
    IF Len(points) <= 1 THEN points
    ELSE LET deduped == DedupFrom(points, 2, <<points[1]>>) IN
         IF Len(deduped) <= 2 THEN deduped
         ELSE LET result == CollinearFrom(deduped, 2, <<deduped[1]>>)
                  last == deduped[Len(deduped)]
              IN  Append(result, SnapLast(result[Len(result)], last))

----------------------------------------------------------------------------
(* Routing graph data model (d2gridrouter/types.go) *)

Horizontal == "Horizontal"
Vertical == "Vertical"

\* RoutingGraphEdge{From, To, Weight, Orientation}
RoutingGraphEdge(from, to, w, o) ==
    [From |-> from, To |-> to, Weight |-> w, Orientation |-> o]

\* DijkstraState{NodeID, Length, Bends, Direction, Parent}
DijkstraState(n, len, bends, dir, par) ==
    [NodeID |-> n, Length |-> len, Bends |-> bends, Direction |-> dir,
     Parent |-> par]

\* A comparison that looks at the length alone.
LessLengthOnly(a, b) == a.Length < b.Length

\* DijkstraState.Less: lexicographic (length, bends).  Lengths are exact
\* integers here, so the 1e-9 epsilon reads "different".
Less(a, b) ==
    IF a.Length # b.Length THEN a.Length < b.Length ELSE a.Bends < b.Bends

stateKey(n, dir) == <<n, dir>>

----------------------------------------------------------------------------
(* dijkstraRoute (d2gridrouter/dijkstra.go) *)

\* The search state before the loop: both orientations seeded at the source.
DijkstraStart(srcNode) ==
    LET seeds == {DijkstraState(srcNode, 0, 0, dir, -1) :
                      dir \in {Horizontal, Vertical}}
    IN  [best    |-> [k \in {stateKey(srcNode, Horizontal),
                             stateKey(srcNode, Vertical)} |->
                         DijkstraState(srcNode, 0, 0, k[2], -1)],
         parent  |-> [k \in {} |-> <<>>],
         visited |-> {},
         pq      |-> seeds,
         done    |-> FALSE,
         path    |-> <<>>]

\* reconstructPath: follow parent keys from endKey until the source node.
RECURSIVE reconstructPath(_, _, _)
reconstructPath(parent, cur, srcNode) ==
    IF cur[1] = srcNode THEN <<>>
    ELSE IF cur \notin DOMAIN parent THEN <<cur[1]>>
    ELSE Append(reconstructPath(parent, parent[cur], srcNode), cur[1])

\* The "Explore neighbors" loop over rg.Adj[cur.NodeID], from edge i on.
RECURSIVE Explore(_, _, _, _, _)
Explore(d, cur, edges, i, srcNode) ==
    IF i > Len(edges) THEN d
    ELSE LET edge == edges[i]
             newBends == IF cur.NodeID # srcNode /\ edge.Orientation # cur.Direction
                         THEN cur.Bends + 1 ELSE cur.Bends
             newState == DijkstraState(edge.To, FAdd(cur.Length, edge.Weight),
                                       newBends, edge.Orientation, cur.NodeID)
             newKey == stateKey(edge.To, edge.Orientation)
             curKey == stateKey(cur.NodeID, cur.Direction)
         IN  IF newKey \in d.visited
             THEN Explore(d, cur, edges, i + 1, srcNode)
             ELSE IF newKey \in DOMAIN d.best /\ ~Less(newState, d.best[newKey])
             THEN Explore(d, cur, edges, i + 1, srcNode)
             ELSE Explore(
                    [d EXCEPT
                       !.best = [k \in DOMAIN d.best \cup {newKey} |->
                                    IF k = newKey THEN newState ELSE d.best[k]],
                       !.parent = [k \in DOMAIN d.parent \cup {newKey} |->
                                    IF k = newKey THEN curKey ELSE d.parent[k]],
                       !.pq = d.pq \cup {newState}],
                    cur, edges, i + 1, srcNode)

\* heap.Pop hands out an element no other element is Less than; which one
\* among equals depends on the heap's layout, so any of them may come.
PopCandidates(pq) == {s \in pq : \A t \in pq : ~Less(t, s)}

\* Mutation of DijkstraLoopBody: the popped key is not marked visited.
DijkstraLoopBodyUnmarked(adj, d, cur, srcNode, dstNode) ==
    LET curKey == stateKey(cur.NodeID, cur.Direction)
        popped == [d EXCEPT !.pq = d.pq \ {cur}]
    IN  IF curKey \in d.visited THEN popped
        ELSE IF cur.NodeID = dstNode
             THEN [popped EXCEPT !.done = TRUE,
                                 !.path = reconstructPath(d.parent, curKey, srcNode)]
             ELSE Explore(popped, cur, adj[cur.NodeID], 1, srcNode)

\* One iteration of the "Dijkstra loop" with cur popped from the queue.
DijkstraLoopBody(adj, d, cur, srcNode, dstNode) ==
    LET curKey == stateKey(cur.NodeID, cur.Direction)
        popped == [d EXCEPT !.pq = d.pq \ {cur}]
    IN  IF curKey \in d.visited THEN popped
        ELSE LET seen == [popped EXCEPT !.visited = d.visited \cup {curKey}] IN
             IF cur.NodeID = dstNode
             THEN [seen EXCEPT !.done = TRUE,
                               !.path = reconstructPath(d.parent, curKey, srcNode)]
             ELSE Explore(seen, cur, adj[cur.NodeID], 1, srcNode)

\* All results dijkstraRoute can return, over the heap's choices among equals.
RECURSIVE DijkstraRuns(_, _, _, _)
DijkstraRuns(adj, d, srcNode, dstNode) ==
    IF d.done THEN {d.path}
    ELSE IF d.pq = {} THEN {<<>>}
    ELSE UNION {DijkstraRuns(adj, DijkstraLoopBody(adj, d, cur, srcNode, dstNode),
                             srcNode, dstNode) : cur \in PopCandidates(d.pq)}

dijkstraRoute(adj, srcNode, dstNode) ==
    IF srcNode = dstNode THEN {<<srcNode>>}
    ELSE DijkstraRuns(adj, DijkstraStart(srcNode), srcNode, dstNode)

----------------------------------------------------------------------------
(* Routing graphs the routing functions are run on *)

\* math.Hypot of an axis-aligned difference (one of dx, dy is 0).
Hypot(dx, dy) == Abs(dx) + Abs(dy)

\* Node positions on a 3 x 3 lattice with uneven spacing (pixels), so that
\* edges differ in length; id = row * 3 + col.
LatticeStops == <<0, 100, 300>>

LatticeCols == Len(LatticeStops)

LatticeNodes ==
    [id \in 0..(LatticeCols * LatticeCols - 1) |->
        Pt(Px(LatticeStops[(id % LatticeCols) + 1]),
           Px(LatticeStops[(id \div LatticeCols) + 1]))]

\* A set of id pairs as a sequence in increasing order: the order in which
\* edges are added to the graph.
RECURSIVE OrderPairs(_)
OrderPairs(S) ==
    IF S = {} THEN <<>>
    ELSE LET m == CHOOSE q \in S : \A r \in S :
                      q[1] < r[1] \/ (q[1] = r[1] /\ q[2] <= r[2])
         IN  <<m>> \o OrderPairs(S \ {m})

\* The pairs of lattice neighbours.
LatticePairs ==
    LET ids == DOMAIN LatticeNodes IN
    OrderPairs({p \in ids \X ids :
                  \/ p[2] = p[1] + 1 /\ p[2] % LatticeCols # 0
                  \/ p[2] = p[1] + LatticeCols})

\* Connect the chosen pairs as buildRoutingGraph connects consecutive nodes:
\* the edge and its reverse, weighted by geometric length.
RECURSIVE ConnectPairs(_, _, _, _, _)
ConnectPairs(nodes, pairs, present, k, adj) ==
    IF k > Len(pairs) THEN adj
    ELSE IF k \notin present THEN ConnectPairs(nodes, pairs, present, k + 1, adj)
    ELSE LET a == pairs[k][1]
             b == pairs[k][2]
             w == Hypot(nodes[b].x - nodes[a].x, nodes[b].y - nodes[a].y)
             o == IF nodes[a].y = nodes[b].y THEN Horizontal ELSE Vertical
             edge == RoutingGraphEdge(a, b, w, o)
             revEdge == RoutingGraphEdge(b, a, w, o)
         IN  ConnectPairs(nodes, pairs, present, k + 1,
                 [adj EXCEPT ![a] = Append(@, edge), ![b] = Append(@, revEdge)])

MakeRoutingGraph(nodes, pairs, present) ==
    [Nodes |-> nodes,
     Adj   |-> ConnectPairs(nodes, pairs, present, 1,
                            [id \in DOMAIN nodes |-> <<>>])]

\* At most MaxPresent of the candidate pairs are edges of the graph.
MaxPresent == 5

RECURSIVE SubsetsUpTo(_, _)
SubsetsUpTo(S, k) ==
    IF k = 0 \/ S = {} THEN {{}}
    ELSE LET x == CHOOSE y \in S : TRUE
             rest == S \ {x}
         IN  SubsetsUpTo(rest, k) \cup
             {T \cup {x} : T \in SubsetsUpTo(rest, k - 1)}

----------------------------------------------------------------------------
(* Specification of dijkstraRoute on bounded routing graphs *)

DijkstraInit ==
    /\ pc = "dijkstra"
    /\ \E present \in SubsetsUpTo(1..Len(LatticePairs), MaxPresent) :
           rg = MakeRoutingGraph(LatticeNodes, LatticePairs, present)
    /\ djSrc \in DOMAIN LatticeNodes
    /\ djDst \in DOMAIN LatticeNodes
    /\ dj = <<>>
    /\ djPath = <<>>
    /\ SimplifyIdle
    /\ CorridorIdle
    /\ PlaceIdle
    /\ RouteIdle
    /\ NudgeIdle
    /\ CallIdle

\* if srcNode == dstNode { return []int{srcNode} }
DijkstraSameNode ==
    /\ pc = "dijkstra"
    /\ djSrc = djDst
    /\ djPath' = <<djSrc>>
    /\ pc' = "routed"
    /\ UNCHANGED <<nudgeVars, callVars, rg, djSrc, djDst, dj, simplifyVars, corridorVars, placeVars, routeVars>>

\* Seed the queue with both orientations at the source.
DijkstraSeed ==
    /\ pc = "dijkstra"
    /\ djSrc # djDst
    /\ dj' = DijkstraStart(djSrc)
    /\ pc' = "loop"
    /\ UNCHANGED <<nudgeVars, callVars, rg, djSrc, djDst, djPath, simplifyVars, corridorVars, placeVars, routeVars>>

\* One iteration of the loop: pop, mark visited, return at the destination
\* or explore the neighbours.
DijkstraPop ==
    /\ pc = "loop"
    /\ \E cur \in PopCandidates(dj.pq) :
          LET d == DijkstraLoopBody(rg.Adj, dj, cur, djSrc, djDst) IN
          /\ dj' = d
          /\ djPath' = d.path
          /\ pc' = IF d.done THEN "routed" ELSE "loop"
    /\ UNCHANGED <<nudgeVars, callVars, rg, djSrc, djDst, simplifyVars, corridorVars, placeVars, routeVars>>

\* The queue ran empty: return nil.
DijkstraNoPath ==
    /\ pc = "loop"
    /\ dj.pq = {}
    /\ djPath' = <<>>
    /\ pc' = "routed"
    /\ UNCHANGED <<nudgeVars, callVars, rg, djSrc, djDst, dj, simplifyVars, corridorVars, placeVars, routeVars>>

DijkstraNext ==
    \/ DijkstraSameNode
    \/ DijkstraSeed
    \/ DijkstraPop
    \/ DijkstraNoPath

SpecDijkstra == DijkstraInit /\ [][DijkstraNext]_vars

----------------------------------------------------------------------------
(* What a shortest, then least-bent path of a routing graph is *)

\* The simple paths from cur to dstNode as node sequences without cur.
RECURSIVE SimplePaths(_, _, _, _)
SimplePaths(adj, cur, dstNode, seen) ==
    IF cur = dstNode THEN {<<>>}
    ELSE UNION {{<<adj[cur][i].To>> \o rest :
                    rest \in SimplePaths(adj, adj[cur][i].To, dstNode,
                                         seen \cup {adj[cur][i].To})} :
                i \in {j \in 1..Len(adj[cur]) : adj[cur][j].To \notin seen}}

\* The graph edges from a to b (one at most in the graphs checked).
EdgesBetween(adj, a, b) ==
    {adj[a][i] : i \in {j \in 1..Len(adj[a]) : adj[a][j].To = b}}

Joined(adj, srcNode, path) ==
    \A i \in 1..Len(path) :
        EdgesBetween(adj, IF i = 1 THEN srcNode ELSE path[i - 1], path[i]) # {}

HopEdge(adj, srcNode, path, i) ==
    CHOOSE e \in EdgesBetween(adj, IF i = 1 THEN srcNode ELSE path[i - 1],
                              path[i]) : TRUE

RECURSIVE PathWeight(_, _, _, _)
PathWeight(adj, srcNode, path, i) ==
    IF i > Len(path) THEN 0
    ELSE HopEdge(adj, srcNode, path, i).Weight + PathWeight(adj, srcNode, path, i + 1)

\* Orientation changes between consecutive edges; none is counted at srcNode.
PathBends(adj, srcNode, path) ==
    Cardinality({i \in 2..Len(path) :
        HopEdge(adj, srcNode, path, i).Orientation #
        HopEdge(adj, srcNode, path, i - 1).Orientation})

IsBestPath(adj, srcNode, dstNode, path) ==
    LET all == SimplePaths(adj, srcNode, dstNode, {srcNode}) IN
    /\ Len(path) > 0
    /\ path[Len(path)] = dstNode
    /\ \A i \in 1..Len(path) : path[i] # srcNode
    /\ Joined(adj, srcNode, path)
    /\ \A q \in all :
          \/ PathWeight(adj, srcNode, path, 1) < PathWeight(adj, srcNode, q, 1)
          \/ /\ PathWeight(adj, srcNode, path, 1) = PathWeight(adj, srcNode, q, 1)
             /\ PathBends(adj, srcNode, path) <= PathBends(adj, srcNode, q)

(* C7: dijkstraRoute(rg, src, dst) with src != dst returns nil exactly when
   dst is not reachable from src; otherwise it returns node ids that exclude
   src, end with dst, are joined hop by hop by graph edges, have minimal
   total weight and, among the minimal-weight paths, minimal bends.  For
   src == dst it returns [src]. *)
C7_DijkstraShortestLeastBends ==
    pc = "routed" =>
        IF djSrc = djDst THEN djPath = <<djSrc>>
        ELSE IF SimplePaths(rg.Adj, djSrc, djDst, {djSrc}) = {}
        THEN djPath = <<>>
        ELSE IsBestPath(rg.Adj, djSrc, djDst, djPath)

\* A search that had a choice: two minimal-weight paths with different bends.
C7_Witness ==
    /\ pc = "routed"
    /\ djSrc # djDst
    /\ Len(djPath) >= 3
    /\ \E q \in SimplePaths(rg.Adj, djSrc, djDst, {djSrc}) :
          /\ PathWeight(rg.Adj, djSrc, q, 1) = PathWeight(rg.Adj, djSrc, djPath, 1)
          /\ PathBends(rg.Adj, djSrc, q) > PathBends(rg.Adj, djSrc, djPath)

----------------------------------------------------------------------------
(* Specification of simplifyRoute on bounded point sequences *)

MaxLen == 4

\* Two clusters of coordinates 0.25 px apart, the clusters 2 px apart.
SimplifyCoords == {0, 15, 120, 135}

SimplifyPoints == {Pt(x, y) : x \in SimplifyCoords, y \in SimplifyCoords}

SimplifyInputs == UNION {[1..n -> SimplifyPoints] : n \in 2..MaxLen}

SimplifyInit ==
    /\ pc = "simplify"
    /\ sIn \in SimplifyInputs
    /\ sOut = <<>>
    /\ DijkstraIdle
    /\ CorridorIdle
    /\ PlaceIdle
    /\ RouteIdle
    /\ NudgeIdle
    /\ CallIdle

Simplify ==
    /\ pc = "simplify"
    /\ sOut' = simplifyRoute(sIn)
    /\ pc' = "simplified"
    /\ UNCHANGED <<nudgeVars, callVars, sIn, dijkstraVars, corridorVars, placeVars, routeVars>>

SimplifyNext == Simplify

SpecSimplify == SimplifyInit /\ [][SimplifyNext]_vars

----------------------------------------------------------------------------
(* C10: simplifyRoute never changes the first or the last point of a route:
   for every input of at least 2 points, the first output point has the
   coordinates of the first input point and the last output point has the
   coordinates of the last input point. *)
C10_EndpointsKept ==
    (pc = "simplified" /\ Len(sIn) >= 2) =>
        /\ sOut[1] = sIn[1]
        /\ sOut[Len(sOut)] = sIn[Len(sIn)]

----------------------------------------------------------------------------
(* routeAllEdges and the crossing penalties (d2gridrouter/router.go) *)

DirTop == "DirTop"
DirRight == "DirRight"
DirBottom == "DirBottom"
DirLeft == "DirLeft"

\* Port{Side, Pos}; NodeIdx, EdgeIdx and IsSrc are not read by the router.
Port(side, pos) == [Side |-> side, Pos |-> pos]

\* routedSeg{from, to}
routedSeg(from, to) == [from |-> from, to |-> to]

\* const crossingPenalty = 500.0
crossingPenalty == Px(500)

\* const eps = 0.5 of segmentsCross
eps == Px(1) \div 2

segmentsCross(a1, a2, b1, b2) ==
    LET aHoriz == Abs(a1.y - a2.y) < eps
        bHoriz == Abs(b1.y - b2.y) < eps
        hStart == IF aHoriz THEN a1 ELSE b1
        hEnd   == IF aHoriz THEN a2 ELSE b2
        vStart == IF aHoriz THEN b1 ELSE a1
        vEnd   == IF aHoriz THEN b2 ELSE a2
        hMinX == Min2(hStart.x, hEnd.x)
        hMaxX == Max2(hStart.x, hEnd.x)
        vMinY == Min2(vStart.y, vEnd.y)
        vMaxY == Max2(vStart.y, vEnd.y)
    IN  IF aHoriz = bHoriz THEN FALSE
        ELSE /\ vStart.x > hMinX /\ vStart.x < hMaxX
             /\ hStart.y > vMinY /\ hStart.y < vMaxY

\* The inner loop "for _, rs := range routed": does any routed segment cross
\* the graph edge?
CrossesRouted(nodes, edge, routed) ==
    \E k \in 1..Len(routed) :
        segmentsCross(nodes[edge.From], nodes[edge.To],
                      nodes[routed[k].from], nodes[routed[k].to])

\* The loop over rg.Adj[edge.To]: the first reverse edge has delta added.
RECURSIVE ShiftReverse(_, _, _, _, _)
ShiftReverse(edges, ri, fromID, toID, delta) ==
    IF ri > Len(edges) THEN edges
    ELSE IF edges[ri].From = fromID /\ edges[ri].To = toID
    THEN [edges EXCEPT ![ri].Weight = FAdd(@, delta)]
    ELSE ShiftReverse(edges, ri + 1, fromID, toID, delta)

\* The loop over rg.Adj[nodeID], from edge ei on: an edge that crosses a
\* routed segment has its weight and its reverse edge's weight shifted by
\* delta.
RECURSIVE ShiftEdges(_, _, _, _, _, _)
ShiftEdges(adj, nodes, routed, delta, nodeID, ei) ==
    IF ei > Len(adj[nodeID]) THEN adj
    ELSE LET edge == adj[nodeID][ei] IN
         IF edge.From # nodeID \/ ~CrossesRouted(nodes, edge, routed)
         THEN ShiftEdges(adj, nodes, routed, delta, nodeID, ei + 1)
         ELSE LET own == [adj EXCEPT ![nodeID][ei].Weight = FAdd(@, delta)]
                  both == [own EXCEPT ![edge.To] =
                              ShiftReverse(@, 1, edge.To, edge.From, delta)]
              IN  ShiftEdges(both, nodes, routed, delta, nodeID, ei + 1)

\* The body shared by addCrossingPenalties and removeCrossingPenalties: the
\* loop over the nodes, from nodeID on (and from edge ei of nodeID).
\* (Go visits the map in any order; the result does not depend on it.)
RECURSIVE ShiftCrossing(_, _, _, _, _, _)
ShiftCrossing(adj, nodes, routed, delta, nodeID, ei) ==
    IF nodeID \notin DOMAIN adj THEN adj
    ELSE ShiftCrossing(ShiftEdges(adj, nodes, routed, delta, nodeID, ei),
                       nodes, routed, delta, nodeID + 1, 1)

addCrossingPenalties(rgraph, routed) ==
    IF Len(routed) = 0 THEN rgraph
    ELSE [rgraph EXCEPT !.Adj = ShiftCrossing(rgraph.Adj, rgraph.Nodes, routed,
                                         crossingPenalty, 0, 1)]

removeCrossingPenalties(rgraph, routed) ==
    IF Len(routed) = 0 THEN rgraph
    ELSE [rgraph EXCEPT !.Adj = ShiftCrossing(rgraph.Adj, rgraph.Nodes, routed,
                                         -crossingPenalty, 0, 1)]

distSq(a, b) == (a.x - b.x) * (a.x - b.x) + (a.y - b.y) * (a.y - b.y)

\* RoutingGraph.FindNearest: the first node at the least squared distance.
FindNearest(nodes, p) ==
    IF DOMAIN nodes = {} THEN -1
    ELSE CHOOSE id \in DOMAIN nodes :
            /\ \A j \in DOMAIN nodes : distSq(nodes[id], p) <= distSq(nodes[j], p)
            /\ \A j \in DOMAIN nodes :
                  distSq(nodes[j], p) = distSq(nodes[id], p) => id <= j

sameAxis(src, dst) ==
    \/ src.Side = DirBottom /\ dst.Side = DirTop
    \/ src.Side = DirTop /\ dst.Side = DirBottom
    \/ src.Side = DirRight /\ dst.Side = DirLeft
    \/ src.Side = DirLeft /\ dst.Side = DirRight

edgePriority(pa, i) ==
    LET src == pa[i].Src
        dst == pa[i].Dst
    IN  [idx |-> i,
         priority |-> IF sameAxis(src, dst) THEN 0 ELSE 1,
         dist |-> FAdd(Abs(src.Pos.x - dst.Pos.x), Abs(src.Pos.y - dst.Pos.y))]

\* The less function handed to sort.Slice.
lessPriority(a, b) ==
    IF a.priority # b.priority THEN a.priority < b.priority
    ELSE a.dist > b.dist

\* sort.Slice sorts up to 12 elements by insertion: the new element moves
\* left while it is less than its left neighbour.
RECURSIVE InsertPriority(_, _, _)
InsertPriority(sorted, x, j) ==
    IF j >= 1 /\ lessPriority(x, sorted[j]) THEN InsertPriority(sorted, x, j - 1)
    ELSE SubSeq(sorted, 1, j) \o <<x>> \o SubSeq(sorted, j + 1, Len(sorted))

RECURSIVE SortPriorities(_, _, _)
SortPriorities(pa, i, sorted) ==
    IF i > Len(pa) THEN sorted
    ELSE SortPriorities(pa, i + 1,
             InsertPriority(sorted, edgePriority(pa, i), Len(sorted)))

edgeRoutingOrder(pa) ==
    LET priorities == SortPriorities(pa, 1, <<>>) IN
    [i \in 1..Len(pa) |-> priorities[i].idx]

\* The 2-point route written when there is nothing to search.
DirectRoute(pa, i) == <<pa[i].Src.Pos, pa[i].Dst.Pos>>

\* "Convert node path to points" and simplify.
PathRoute(rgraph, pa, i, path) ==
    simplifyRoute(<<pa[i].Src.Pos>> \o [j \in 1..Len(path) |-> rgraph.Nodes[path[j]]]
                  \o <<pa[i].Dst.Pos>>)

\* "Record this edge's segments for future crossing detection."
PathSegments(path) ==
    [j \in 1..(Len(path) - 1) |-> routedSeg(path[j], path[j + 1])]

----------------------------------------------------------------------------
(* Specification of routeAllEdges on routing graphs with crossing corridors *)

\* Eight nodes on the border of a square, joined along the border, and two
\* corridors through the middle that cross without a node: 3-4 and 1-6.
\*      0 --- 1 --- 2
\*      |     |     |
\*      3 ----+---- 4
\*      |     |     |
\*      5 --- 6 --- 7
CorridorNodes(h) ==
    LET pos == <<Pt(Px(0), Px(0)), Pt(Px(100), Px(0)), Pt(Px(200), Px(0)),
                 Pt(Px(0), Px(100)), Pt(Px(200), Px(100)),
                 Pt(Px(0), h), Pt(Px(100), h), Pt(Px(200), h)>>
    IN  [id \in 0..(Len(pos) - 1) |-> pos[id + 1]]

CorridorPairs ==
    <<<<0, 1>>, <<1, 2>>, <<0, 3>>, <<1, 6>>, <<2, 4>>,
      <<3, 4>>, <<3, 5>>, <<4, 7>>, <<5, 6>>, <<6, 7>>>>

\* Border pairs that may be missing from the graph: 1-2 and 5-6.
CorridorOptional == {2, 9}

\* The y of the bottom row: 200 px, or 200 1/6 px (a length that is not a
\* whole number of pixels).
CorridorHeights == {Px(200), Px(200) + 10}

CorridorGraphs ==
    {MakeRoutingGraph(CorridorNodes(h), CorridorPairs,
                      (1..Len(CorridorPairs)) \ drop) :
        h \in CorridorHeights, drop \in SUBSET CorridorOptional}

\* Ports sit on graph nodes 0, 1, 4 and 6.
PortSites == {0, 1, 4, 6}

\* Side pairs of an edge: facing sides (a direct edge) or not.
SidePairs == {<<DirRight, DirLeft>>, <<DirRight, DirTop>>}

\* At most MaxRoutes edges are routed.
MaxRoutes == 2

PortPairs(rgraph) ==
    {[Src |-> Port(sp[1], rgraph.Nodes[a]), Dst |-> Port(sp[2], rgraph.Nodes[b])] :
        a \in PortSites, b \in PortSites, sp \in SidePairs}

CorridorInit ==
    /\ pc = "routeAll"
    /\ rg \in CorridorGraphs
    /\ \E n \in 1..MaxRoutes : ports \in [1..n -> PortPairs(rg)]
    /\ order = <<>>
    /\ oi = 0
    /\ routedSegments = <<>>
    /\ routes = <<>>
    /\ djSrc = -1 /\ djDst = -1 /\ dj = <<>> /\ djPath = <<>>
    /\ SimplifyIdle
    /\ PlaceIdle
    /\ RouteIdle
    /\ NudgeIdle
    /\ CallIdle

\* order := edgeRoutingOrder(ports, edges)
RouteOrder ==
    /\ pc = "routeAll"
    /\ order' = edgeRoutingOrder(ports)
    /\ oi' = 1
    /\ routes' = [i \in 1..Len(ports) |-> <<>>]
    /\ pc' = "nextEdge"
    /\ UNCHANGED <<nudgeVars, callVars, ports, routedSegments, dijkstraVars, simplifyVars, placeVars, routeVars>>

\* Both ports on the same graph node (or no graph node): the direct route.
RouteDirect ==
    /\ pc = "nextEdge"
    /\ oi <= Len(order)
    /\ LET i == order[oi]
           srcNodeID == FindNearest(rg.Nodes, ports[i].Src.Pos)
           dstNodeID == FindNearest(rg.Nodes, ports[i].Dst.Pos)
       IN  /\ srcNodeID < 0 \/ dstNodeID < 0 \/ srcNodeID = dstNodeID
           /\ routes' = [routes EXCEPT ![i] = DirectRoute(ports, i)]
    /\ oi' = oi + 1
    /\ UNCHANGED <<nudgeVars, callVars, pc, ports, order, routedSegments, dijkstraVars, simplifyVars, placeVars, routeVars>>

\* addCrossingPenalties(rg, routedSegments); dijkstraRoute starts.
RouteAddPenalties ==
    /\ pc = "nextEdge"
    /\ oi <= Len(order)
    /\ LET i == order[oi]
           srcNodeID == FindNearest(rg.Nodes, ports[i].Src.Pos)
           dstNodeID == FindNearest(rg.Nodes, ports[i].Dst.Pos)
       IN  /\ ~(srcNodeID < 0 \/ dstNodeID < 0 \/ srcNodeID = dstNodeID)
           /\ djSrc' = srcNodeID
           /\ djDst' = dstNodeID
    /\ rg' = addCrossingPenalties(rg, routedSegments)
    /\ pc' = "dijkstraRunning"
    /\ UNCHANGED <<nudgeVars, callVars, dj, djPath, corridorVars, simplifyVars, placeVars, routeVars>>

\* dijkstraRoute returns; removeCrossingPenalties; the route is written and
\* its segments are recorded.
RouteFinishEdge ==
    /\ pc = "dijkstraRunning"
    /\ \E path \in dijkstraRoute(rg.Adj, djSrc, djDst) :
          LET i == order[oi] IN
          /\ djPath' = path
          /\ IF Len(path) = 0
             THEN /\ routes' = [routes EXCEPT ![i] = DirectRoute(ports, i)]
                  /\ UNCHANGED routedSegments
             ELSE /\ routes' = [routes EXCEPT ![i] = PathRoute(rg, ports, i, path)]
                  /\ routedSegments' = routedSegments \o PathSegments(path)
    /\ rg' = removeCrossingPenalties(rg, routedSegments)
    /\ oi' = oi + 1
    /\ pc' = "nextEdge"
    /\ UNCHANGED <<nudgeVars, callVars, djSrc, djDst, dj, ports, order, simplifyVars, placeVars, routeVars>>

\* The loop is over: return routes.
RouteReturn ==
    /\ pc = "nextEdge"
    /\ oi > Len(order)
    /\ pc' = "returned"
    /\ UNCHANGED <<nudgeVars, callVars, dijkstraVars, corridorVars, simplifyVars, placeVars, routeVars>>

CorridorNext ==
    \/ RouteOrder
    \/ RouteDirect
    \/ RouteAddPenalties
    \/ RouteFinishEdge
    \/ RouteReturn

SpecCorridor == CorridorInit /\ [][CorridorNext]_vars

\* The geometric length of a graph edge.
BaseLength(nodes, edge) ==
    Hypot(nodes[edge.To].x - nodes[edge.From].x,
          nodes[edge.To].y - nodes[edge.From].y)

(* C8: addCrossingPenalties followed by removeCrossingPenalties with the same
   segments restores every directed edge's weight; hence between the routing
   of two edges and after routeAllEdges returns every routing-graph weight
   equals its initial geometric length. *)
C8_WeightsRestored ==
    pc \in {"nextEdge", "returned"} =>
        \A id \in DOMAIN rg.Adj : \A ei \in 1..Len(rg.Adj[id]) :
            rg.Adj[id][ei].Weight = BaseLength(rg.Nodes, rg.Adj[id][ei])

(* C9: while dijkstraRoute runs for an edge inside routeAllEdges, every graph
   edge that crosses a segment of the already committed routes weighs its
   base length plus exactly one crossing penalty, in both stored directions,
   and every other graph edge weighs exactly its base length. *)
C9_OnePenaltyWhileRouting ==
    pc = "dijkstraRunning" =>
        \A id \in DOMAIN rg.Adj : \A ei \in 1..Len(rg.Adj[id]) :
            LET edge == rg.Adj[id][ei] IN
            edge.Weight = BaseLength(rg.Nodes, edge) +
                (IF CrossesRouted(rg.Nodes, edge, routedSegments)
                 THEN crossingPenalty ELSE 0)

----------------------------------------------------------------------------
(* gridPlacement (d2wueortho/routinggraph.go) *)

gridCell(r, c) == [row |-> r, col |-> c]

\* channel := 80.0
channel == Px(80)

SetMax(S) == CHOOSE x \in S : \A y \in S : y <= x

SetMin(S) == CHOOSE x \in S : \A y \in S : x <= y

\* "Build adjacency list": both directions of every edge that is no self-loop.
RECURSIVE AppendEdges(_, _, _)
AppendEdges(edges, k, adj) ==
    IF k > Len(edges) THEN adj
    ELSE LET si == edges[k].Src
             di == edges[k].Dst
         IN  IF si # di
             THEN AppendEdges(edges, k + 1,
                      [adj EXCEPT ![si] = Append(@, di), ![di] = Append(@, si)])
             ELSE AppendEdges(edges, k + 1, adj)

\* "Deduplicate adjacency lists": the first occurrence stays.
RECURSIVE Dedupe(_, _, _)
Dedupe(list, k, deduped) ==
    IF k > Len(list) THEN deduped
    ELSE IF \E m \in 1..Len(deduped) : deduped[m] = list[k]
    THEN Dedupe(list, k + 1, deduped)
    ELSE Dedupe(list, k + 1, Append(deduped, list[k]))

Adjacency(graph) ==
    LET raw == AppendEdges(graph.Edges, 1, [i \in DOMAIN graph.Objects |-> <<>>])
    IN  [i \in DOMAIN graph.Objects |-> Dedupe(raw[i], 1, <<>>)]

\* outgoing[i]: the neighbours i has an edge to.
Outgoing(graph) ==
    [i \in DOMAIN graph.Objects |->
        {graph.Edges[k].Dst : k \in {m \in 1..Len(graph.Edges) :
            graph.Edges[m].Src = i /\ graph.Edges[m].Dst # i}}]

Degree(adj) == [i \in DOMAIN adj |-> Len(adj[i])]

\* The first node of the greatest degree.
StartNode(degree) ==
    CHOOSE i \in DOMAIN degree :
        /\ \A j \in DOMAIN degree : degree[j] <= degree[i]
        /\ \A j \in DOMAIN degree : j < i => degree[j] < degree[i]

bfsDirs(direction) ==
    CASE direction = "down" ->
            <<gridCell(1, 0), gridCell(0, 1), gridCell(-1, 0), gridCell(0, -1)>>
      [] direction = "up" ->
            <<gridCell(-1, 0), gridCell(0, 1), gridCell(1, 0), gridCell(0, -1)>>
      [] direction = "left" ->
            <<gridCell(0, -1), gridCell(1, 0), gridCell(0, 1), gridCell(-1, 0)>>
      [] OTHER ->
            <<gridCell(0, 1), gridCell(1, 0), gridCell(0, -1), gridCell(-1, 0)>>

\* rev[0] is the opposite of dirs[0]; the rest is copied.
reverseDirs(dirs) ==
    IF Len(dirs) < 1 THEN dirs
    ELSE [dirs EXCEPT ![1] = gridCell(-dirs[1].row, -dirs[1].col)]

\* maxCols := int(math.Ceil(math.Sqrt(float64(n)))), at least 2
MaxColsOf(n) ==
    LET root == CHOOSE k \in 0..n : k * k >= n /\ (k = 0 \/ (k - 1) * (k - 1) < n)
    IN  Max2(2, root)

\* The comparison the neighbours are sorted by: higher degree first, then
\* forward edges, then the lower index.
lessNeighbor(degree, out, a, b) ==
    IF degree[a] # degree[b] THEN degree[a] > degree[b]
    ELSE IF (a \in out) # (b \in out) THEN a \in out
    ELSE a < b

RECURSIVE InsertNeighbor(_, _, _, _, _)
InsertNeighbor(degree, out, sorted, x, j) ==
    IF j >= 1 /\ lessNeighbor(degree, out, x, sorted[j])
    THEN InsertNeighbor(degree, out, sorted, x, j - 1)
    ELSE SubSeq(sorted, 1, j) \o <<x>> \o SubSeq(sorted, j + 1, Len(sorted))

RECURSIVE SortNeighbors(_, _, _, _, _)
SortNeighbors(degree, out, list, k, sorted) ==
    IF k > Len(list) THEN sorted
    ELSE SortNeighbors(degree, out, list, k + 1,
             InsertNeighbor(degree, out, sorted, list[k], Len(sorted)))

\* "Collect unvisited neighbors" and sort them.
Neighbors(adj, out, node, seen) ==
    LET unvisited == SelectSeq(adj[node], LAMBDA nb : nb \notin seen)
    IN  SortNeighbors(Degree(adj), out[node], unvisited, 1, <<>>)

\* The source spirals over the rings 2..20 around the centre.  The model
\* spirals over the rings 2..SpiralRadius, so that a centre whose rings are
\* all taken is within reach of a bounded graph.
SpiralRadius == 2

\* return gridCell{center.row, center.col + 100}
fallbackShift == 100

\* The offsets of one ring in the order the loops visit them: dr ascending,
\* then dc ascending.
RingOffsets(radius) ==
    {d \in (-radius..radius) \X (-radius..radius) :
        Abs(d[1]) = radius \/ Abs(d[2]) = radius}

FirstOffset(S) ==
    CHOOSE d \in S : \A e \in S : d[1] < e[1] \/ (d[1] = e[1] /\ d[2] <= e[2])

\* The first free cell of the rings radius..SpiralRadius, or <<>>.
RECURSIVE SpiralFrom(_, _, _, _, _)
SpiralFrom(center, occ, maxCols, bounded, radius) ==
    IF radius > SpiralRadius THEN <<>>
    ELSE LET free == {d \in RingOffsets(radius) :
                        /\ gridCell(center.row + d[1], center.col + d[2]) \notin occ
                        /\ bounded => Abs(center.col + d[2]) < maxCols}
         IN  IF free # {}
             THEN LET d == FirstOffset(free)
                  IN  gridCell(center.row + d[1], center.col + d[2])
             ELSE SpiralFrom(center, occ, maxCols, bounded, radius + 1)

\* The first direction whose cell is free (and within the column bounds).
RECURSIVE FirstFreeDir(_, _, _, _, _, _)
FirstFreeDir(center, occ, dirs, maxCols, bounded, k) ==
    IF k > Len(dirs) THEN <<>>
    ELSE LET candidate == gridCell(center.row + dirs[k].row,
                                   center.col + dirs[k].col)
         IN  IF candidate \notin occ /\ (bounded => Abs(candidate.col) < maxCols)
             THEN candidate
             ELSE FirstFreeDir(center, occ, dirs, maxCols, bounded, k + 1)

findBestCell(center, occ, dirs, maxCols) ==
    LET near == FirstFreeDir(center, occ, dirs, maxCols, TRUE, 1)
        nearAny == FirstFreeDir(center, occ, dirs, maxCols, FALSE, 1)
        ring == SpiralFrom(center, occ, maxCols, TRUE, 2)
        ringAny == SpiralFrom(center, occ, maxCols, FALSE, 2)
    IN  IF near # <<>> THEN near
        ELSE IF nearAny # <<>> THEN nearAny
        ELSE IF ring # <<>> THEN ring
        ELSE IF ringAny # <<>> THEN ringAny
        ELSE gridCell(center.row, center.col + fallbackShift)

\* for radius := 0; radius <= 50; radius++
freeRadius == 50

RECURSIVE FirstFreeFrom(_, _)
FirstFreeFrom(occ, radius) ==
    IF radius > freeRadius THEN gridCell(0, Cardinality(occ))
    ELSE LET free == {d \in (-radius..radius) \X (-radius..radius) :
                        gridCell(d[1], d[2]) \notin occ}
         IN  IF free # {}
             THEN LET d == FirstOffset(free) IN gridCell(d[1], d[2])
             ELSE FirstFreeFrom(occ, radius + 1)

findFirstFree(occ) == FirstFreeFrom(occ, 0)

----------------------------------------------------------------------------
(* localImprove (d2wueortho/routinggraph.go) *)

\* const crossingPenalty = 4 of localImprove
cellCrossingPenalty == 4

\* localImprove(placement, occupied, adj, objects, 5)
maxIters == 5

\* for i := 0; i < n && i < 30
swapLimit == 30

\* Occupied cells strictly between two columns of a row / two rows of a column.
RowBetween(occ, r, c1, c2) ==
    {c \in (Min2(c1, c2) + 1)..(Max2(c1, c2) - 1) : gridCell(r, c) \in occ}

ColBetween(occ, c, r1, r2) ==
    {r \in (Min2(r1, r2) + 1)..(Max2(r1, r2) - 1) : gridCell(r, c) \in occ}

costForEdge(occ, ci, cj) ==
    LET dist == Abs(ci.row - cj.row) + Abs(ci.col - cj.col)
        corner1blocked == \/ RowBetween(occ, ci.row, ci.col, cj.col) # {}
                          \/ ColBetween(occ, cj.col, ci.row, cj.row) # {}
        corner2blocked == \/ ColBetween(occ, ci.col, ci.row, cj.row) # {}
                          \/ RowBetween(occ, cj.row, ci.col, cj.col) # {}
        penalty ==
            IF ci.row = cj.row
            THEN cellCrossingPenalty * Cardinality(RowBetween(occ, ci.row, ci.col, cj.col))
            ELSE IF ci.col = cj.col
            THEN cellCrossingPenalty * Cardinality(ColBetween(occ, ci.col, ci.row, cj.row))
            ELSE IF corner1blocked /\ corner2blocked THEN cellCrossingPenalty
            ELSE 0
    IN  IF dist <= 1 THEN dist ELSE dist + penalty

RECURSIVE CostFrom(_, _, _, _, _)
CostFrom(pl, occ, adj, i, k) ==
    IF i \notin DOMAIN adj THEN 0
    ELSE IF k > Len(adj[i]) THEN CostFrom(pl, occ, adj, i + 1, 1)
    ELSE (IF adj[i][k] > i THEN costForEdge(occ, pl[i], pl[adj[i][k]]) ELSE 0)
         + CostFrom(pl, occ, adj, i, k + 1)

totalCost(pl, occ, adj) == CostFrom(pl, occ, adj, 0, 1)

\* dirs of localImprove
improveDirs == <<gridCell(0, 1), gridCell(1, 0), gridCell(0, -1), gridCell(-1, 0)>>

----------------------------------------------------------------------------
(* The geometry gridPlacement returns *)

RECURSIVE PrefixSum(_, _)
PrefixSum(sizes, c) == IF c = 0 THEN 0 ELSE PrefixSum(sizes, c - 1) + sizes[c - 1]

BuildGridInfo(pl, objects) ==
    LET ids == DOMAIN objects
        minRow == SetMin({pl[i].row : i \in ids})
        minCol == SetMin({pl[i].col : i \in ids})
        maxRow == SetMax({pl[i].row : i \in ids})
        maxCol == SetMax({pl[i].col : i \in ids})
        numCols == maxCol - minCol + 1
        numRows == maxRow - minRow + 1
        colWidth == [c \in 0..(numCols - 1) |->
            SetMax({channel} \cup {objects[i].Width + channel :
                                     i \in {j \in ids : pl[j].col - minCol = c}})]
        rowHeight == [r \in 0..(numRows - 1) |->
            SetMax({channel} \cup {objects[i].Height + channel :
                                     i \in {j \in ids : pl[j].row - minRow = r}})]
        colX == [c \in 0..(numCols - 1) |-> PrefixSum(colWidth, c)]
        rowY == [r \in 0..(numRows - 1) |-> PrefixSum(rowHeight, r)]
        normalized == [i \in ids |-> gridCell(pl[i].row - minRow, pl[i].col - minCol)]
    IN  [placement |-> normalized,
         occupied  |-> [cell \in {normalized[i] : i \in ids} |->
                           SetMax({i \in ids : normalized[i] = cell})],
         colWidth  |-> colWidth,
         rowHeight |-> rowHeight,
         colX      |-> colX,
         rowY      |-> rowY,
         objects   |-> [i \in ids |->
             [Width   |-> objects[i].Width,
              Height  |-> objects[i].Height,
              TopLeft |-> Pt(colX[normalized[i].col]
                               + colWidth[normalized[i].col] \div 2
                               - objects[i].Width \div 2,
                             rowY[normalized[i].row]
                               + rowHeight[normalized[i].row] \div 2
                               - objects[i].Height \div 2)]],
         channel   |-> channel]

----------------------------------------------------------------------------
(* Specification of gridPlacement on bounded graphs *)

\* Graphs of up to MaxNodes root objects and up to MaxEdges edges (self-loops
\* and repeated edges among them), and the star of StarLeaves leaves.
MaxNodes == 4

MaxEdges == 3

StarLeaves == 22

\* Width and height of an object (pixels).
SmallObject == [Width |-> Px(60), Height |-> Px(40)]

LargeObject == [Width |-> Px(160), Height |-> Px(160)]

\* Object i takes the size pattern[(i mod 2) + 1].
SizePatterns == {<<SmallObject, SmallObject>>, <<LargeObject, SmallObject>>}

ObjectsOf(n, pattern) == [i \in 0..(n - 1) |-> pattern[(i % 2) + 1]]

Directions == {"", "down", "up", "left"}

EdgeLists(n) ==
    UNION {[1..m -> [Src : 0..(n - 1), Dst : 0..(n - 1)]] : m \in 0..MaxEdges}

SmallGraphs ==
    {[Objects |-> ObjectsOf(n[1], pattern), Edges |-> n[2], Direction |-> dir] :
        n \in UNION {{<<k, el>> : el \in EdgeLists(k)} : k \in 1..MaxNodes},
        pattern \in SizePatterns, dir \in Directions}

StarGraph ==
    [Objects   |-> ObjectsOf(StarLeaves + 1, <<SmallObject, SmallObject>>),
     Edges     |-> [k \in 1..StarLeaves |-> [Src |-> 0, Dst |-> k]],
     Direction |-> ""]

PlaceInit ==
    /\ pc = "place"
    /\ g \in SmallGraphs \cup {StarGraph}
    /\ BfsIdle
    /\ info = <<>>
    /\ SimplifyIdle
    /\ DijkstraIdle
    /\ CorridorIdle
    /\ RouteIdle
    /\ NudgeIdle
    /\ CallIdle

\* Up to the BFS loop: the start node takes cell (0, 0).
PlaceStart ==
    /\ pc = "place"
    /\ LET start == StartNode(Degree(Adjacency(g))) IN
       /\ placement' = [i \in {start} |-> gridCell(0, 0)]
       /\ occupied' = {gridCell(0, 0)}
       /\ queue' = <<start>>
       /\ visited' = {start}
    /\ pc' = "bfs"
    /\ UNCHANGED <<nudgeVars, callVars, g, bfsCur, pending, li, info,
                   simplifyVars, dijkstraVars, corridorVars, routeVars>>

\* cur := queue[0]; collect and sort its unvisited neighbours.
BfsPop ==
    /\ pc = "bfs"
    /\ pending = <<>>
    /\ queue # <<>>
    /\ bfsCur' = Head(queue)
    /\ queue' = Tail(queue)
    /\ pending' = Neighbors(Adjacency(g), Outgoing(g), Head(queue), visited)
    /\ UNCHANGED <<nudgeVars, callVars, pc, g, placement, occupied, visited, li, info,
                   simplifyVars, dijkstraVars, corridorVars, routeVars>>

\* Place the next neighbour of cur.
BfsPlace ==
    /\ pc = "bfs"
    /\ pending # <<>>
    /\ LET nb == Head(pending)
           preferredDirs == IF nb \in Outgoing(g)[bfsCur]
                            THEN bfsDirs(g.Direction)
                            ELSE reverseDirs(bfsDirs(g.Direction))
           cell == findBestCell(placement[bfsCur], occupied, preferredDirs,
                                MaxColsOf(Cardinality(DOMAIN g.Objects)))
       IN  IF nb \in visited
           THEN UNCHANGED <<placement, occupied, queue, visited>>
           ELSE /\ visited' = visited \cup {nb}
                /\ placement' = [i \in DOMAIN placement \cup {nb} |->
                                    IF i = nb THEN cell ELSE placement[i]]
                /\ occupied' = occupied \cup {cell}
                /\ queue' = Append(queue, nb)
    /\ pending' = Tail(pending)
    /\ UNCHANGED <<nudgeVars, callVars, pc, g, bfsCur, li, info,
                   simplifyVars, dijkstraVars, corridorVars, routeVars>>

\* The queue is empty: go on to the disconnected nodes.
BfsDone ==
    /\ pc = "bfs"
    /\ pending = <<>>
    /\ queue = <<>>
    /\ pc' = "fill"
    /\ UNCHANGED <<nudgeVars, callVars, g, bfsVars, info,
                   simplifyVars, dijkstraVars, corridorVars, routeVars>>

\* "Handle disconnected nodes": the next unvisited node takes the first free cell.
FillNode ==
    /\ pc = "fill"
    /\ DOMAIN g.Objects \ visited # {}
    /\ LET i == SetMin(DOMAIN g.Objects \ visited)
           cell == findFirstFree(occupied)
       IN  /\ placement' = [k \in DOMAIN placement \cup {i} |->
                               IF k = i THEN cell ELSE placement[k]]
           /\ occupied' = occupied \cup {cell}
           /\ visited' = visited \cup {i}
    /\ UNCHANGED <<nudgeVars, callVars, pc, g, queue, bfsCur, pending, li, info,
                   simplifyVars, dijkstraVars, corridorVars, routeVars>>

\* The state of localImprove at the start of iteration iter.
ImproveIteration(iter) ==
    [iter |-> iter, improved |-> FALSE,
     baseline |-> totalCost(placement, occupied, Adjacency(g)),
     i |-> 0, d |-> 1, j |-> 0]

\* All nodes are placed: enter localImprove, which returns at once for n <= 2.
FillDone ==
    /\ pc = "fill"
    /\ DOMAIN g.Objects \ visited = {}
    /\ IF Cardinality(DOMAIN g.Objects) <= 2
       THEN pc' = "geometry" /\ UNCHANGED li
       ELSE pc' = "move" /\ li' = ImproveIteration(0)
    /\ UNCHANGED <<nudgeVars, callVars, g, placement, occupied, queue, visited, bfsCur, pending, info,
                   simplifyVars, dijkstraVars, corridorVars, routeVars>>

\* The next position of the move loops after direction d of node i.
NextMove(s) ==
    IF s.d < Len(improveDirs) THEN [s EXCEPT !.d = s.d + 1]
    ELSE [s EXCEPT !.i = s.i + 1, !.d = 1]

\* "Try moving each node to an adjacent free cell": one candidate of one node.
MoveStep ==
    /\ pc = "move"
    /\ li.i < Cardinality(DOMAIN g.Objects)
    /\ LET origCell == placement[li.i]
           candidate == gridCell(origCell.row + improveDirs[li.d].row,
                                 origCell.col + improveDirs[li.d].col)
           movedOcc == (occupied \ {origCell}) \cup {candidate}
           movedPl == [placement EXCEPT ![li.i] = candidate]
           newCost == totalCost(movedPl, movedOcc, Adjacency(g))
       IN  IF candidate \in occupied
           THEN /\ li' = NextMove(li)
                /\ UNCHANGED <<placement, occupied>>
           ELSE IF newCost < li.baseline
           THEN /\ placement' = movedPl
                /\ occupied' = movedOcc
                /\ li' = [li EXCEPT !.baseline = newCost, !.improved = TRUE,
                                    !.i = li.i + 1, !.d = 1]
           ELSE /\ placement' = placement
                /\ occupied' = (movedOcc \ {candidate}) \cup {origCell}
                /\ li' = NextMove(li)
    /\ UNCHANGED <<nudgeVars, callVars, pc, g, queue, visited, bfsCur, pending, info,
                   simplifyVars, dijkstraVars, corridorVars, routeVars>>

\* The move loop is over: go on to the swaps.
MovesDone ==
    /\ pc = "move"
    /\ li.i >= Cardinality(DOMAIN g.Objects)
    /\ li' = [li EXCEPT !.i = 0, !.j = 1]
    /\ pc' = "swap"
    /\ UNCHANGED <<nudgeVars, callVars, g, placement, occupied, queue, visited, bfsCur, pending, info,
                   simplifyVars, dijkstraVars, corridorVars, routeVars>>

SwapBound == Min2(Cardinality(DOMAIN g.Objects), swapLimit)

\* The next pair of the swap loops after (i, j).
NextSwap(s) ==
    IF s.j + 1 < SwapBound THEN [s EXCEPT !.j = s.j + 1]
    ELSE [s EXCEPT !.i = s.i + 1, !.j = s.i + 2]

\* "Try swapping pairs of nodes": one pair.
SwapStep ==
    /\ pc = "swap"
    /\ li.j < SwapBound
    /\ LET ci == placement[li.i]
           cj == placement[li.j]
           swapped == [placement EXCEPT ![li.i] = cj, ![li.j] = ci]
           newCost == totalCost(swapped, occupied, Adjacency(g))
       IN  IF ci = cj
           THEN /\ li' = NextSwap(li)
                /\ UNCHANGED placement
           ELSE IF newCost < li.baseline
           THEN /\ placement' = swapped
                /\ li' = [NextSwap(li) EXCEPT !.baseline = newCost,
                                              !.improved = TRUE]
           ELSE /\ placement' = placement
                /\ li' = NextSwap(li)
    /\ UNCHANGED <<nudgeVars, callVars, pc, g, occupied, queue, visited, bfsCur, pending, info,
                   simplifyVars, dijkstraVars, corridorVars, routeVars>>

\* The swap loop is over: another iteration, or localImprove returns.
SwapsDone ==
    /\ pc = "swap"
    /\ li.j >= SwapBound
    /\ IF ~li.improved \/ li.iter + 1 >= maxIters
       THEN pc' = "geometry" /\ UNCHANGED li
       ELSE pc' = "move" /\ li' = ImproveIteration(li.iter + 1)
    /\ UNCHANGED <<nudgeVars, callVars, g, placement, occupied, queue, visited, bfsCur, pending, info,
                   simplifyVars, dijkstraVars, corridorVars, routeVars>>

\* Normalise, size the columns and rows, position the boxes, return gridInfo.
PlaceReturn ==
    /\ pc = "geometry"
    /\ info' = BuildGridInfo(placement, g.Objects)
    /\ pc' = "placed"
    /\ UNCHANGED <<nudgeVars, callVars, g, bfsVars,
                   simplifyVars, dijkstraVars, corridorVars, routeVars>>

PlaceNext ==
    \/ PlaceStart
    \/ BfsPop
    \/ BfsPlace
    \/ BfsDone
    \/ FillNode
    \/ FillDone
    \/ MoveStep
    \/ MovesDone
    \/ SwapStep
    \/ SwapsDone
    \/ PlaceReturn

SpecPlace == PlaceInit /\ [][PlaceNext]_vars

\* The nodes that hold a cell.
Placed == DOMAIN placement

(* C4: after every step of gridPlacement no two nodes hold the same grid cell
   and the occupied set is exactly the set of cells held by placed nodes; on
   return every root node has exactly one cell and the cell-to-node map is
   the inverse of the node-to-cell map. *)
C4_UniqueCells ==
    /\ pc \in {"bfs", "fill", "move", "swap", "geometry"} =>
          /\ \A i, j \in Placed : i # j => placement[i] # placement[j]
          /\ occupied = {placement[i] : i \in Placed}
    /\ pc = "placed" =>
          /\ DOMAIN info.placement = DOMAIN g.Objects
          /\ \A i \in DOMAIN g.Objects :
                /\ info.placement[i] \in DOMAIN info.occupied
                /\ info.occupied[info.placement[i]] = i
          /\ \A cell \in DOMAIN info.occupied :
                info.placement[info.occupied[cell]] = cell

\* The box of object i of a gridInfo: left, top, right, bottom.
BoxOf(gi, i) ==
    [left   |-> gi.objects[i].TopLeft.x,
     top    |-> gi.objects[i].TopLeft.y,
     right  |-> gi.objects[i].TopLeft.x + gi.objects[i].Width,
     bottom |-> gi.objects[i].TopLeft.y + gi.objects[i].Height]

(* C5: after gridPlacement every column is at least as wide as each of its
   nodes plus the channel and every row at least as high, colX and rowY are
   the prefix sums of those sizes starting at 0, every box is centred on its
   cell centre, and the boxes of any two distinct root nodes are separated by
   at least the channel width along the row axis or the column axis. *)
C5_CellsFitAndSeparate ==
    pc = "placed" =>
        /\ \A i \in DOMAIN g.Objects :
              LET c == info.placement[i].col
                  r == info.placement[i].row
                  b == BoxOf(info, i)
              IN  /\ info.colWidth[c] >= g.Objects[i].Width + channel
                  /\ info.rowHeight[r] >= g.Objects[i].Height + channel
                  /\ b.left + b.right = 2 * info.colX[c] + info.colWidth[c]
                  /\ b.top + b.bottom = 2 * info.rowY[r] + info.rowHeight[r]
        /\ \A c \in DOMAIN info.colX :
              info.colX[c] = IF c = 0 THEN 0
                             ELSE info.colX[c - 1] + info.colWidth[c - 1]
        /\ \A r \in DOMAIN info.rowY :
              info.rowY[r] = IF r = 0 THEN 0
                             ELSE info.rowY[r - 1] + info.rowHeight[r - 1]
        /\ \A i, j \in DOMAIN g.Objects : i # j =>
              LET a == BoxOf(info, i)
                  b == BoxOf(info, j)
              IN  \/ b.left - a.right >= channel
                  \/ a.left - b.right >= channel
                  \/ b.top - a.bottom >= channel
                  \/ a.top - b.bottom >= channel

----------------------------------------------------------------------------
(* gridRouteEdges (d2wueortho/gridroute.go) *)

faceRight == "faceRight"
faceLeft == "faceLeft"
faceTop == "faceTop"
faceBottom == "faceBottom"

Faces == {faceRight, faceLeft, faceTop, faceBottom}

absInt(x) == IF x < 0 THEN -x ELSE x

edgeFaces(sf, df) == [srcFace |-> sf, dstFace |-> df]

\* selectFaces with the equal diagonal given to the horizontal faces
\* (absInt(dc) >= absInt(dr) in place of the strict comparison).
selectFacesHorizontalOnTie(srcCell, dstCell) ==
    LET dc == dstCell.col - srcCell.col
        dr == dstCell.row - srcCell.row
    IN  IF dr = 0 /\ dc = 0 THEN edgeFaces(faceRight, faceLeft)
        ELSE IF dr = 0
        THEN (IF dc > 0 THEN edgeFaces(faceRight, faceLeft)
              ELSE edgeFaces(faceLeft, faceRight))
        ELSE IF dc = 0
        THEN (IF dr > 0 THEN edgeFaces(faceBottom, faceTop)
              ELSE edgeFaces(faceTop, faceBottom))
        ELSE IF absInt(dc) >= absInt(dr)
        THEN (IF dc > 0 THEN edgeFaces(faceRight, faceLeft)
              ELSE edgeFaces(faceLeft, faceRight))
        ELSE IF dr > 0 THEN edgeFaces(faceBottom, faceTop)
        ELSE edgeFaces(faceTop, faceBottom)

selectFaces(srcCell, dstCell) ==
    LET dc == dstCell.col - srcCell.col
        dr == dstCell.row - srcCell.row
    IN  IF dr = 0 /\ dc = 0 THEN edgeFaces(faceRight, faceLeft)
        ELSE IF dr = 0
        THEN (IF dc > 0 THEN edgeFaces(faceRight, faceLeft)
              ELSE edgeFaces(faceLeft, faceRight))
        ELSE IF dc = 0
        THEN (IF dr > 0 THEN edgeFaces(faceBottom, faceTop)
              ELSE edgeFaces(faceTop, faceBottom))
        ELSE IF absInt(dc) > absInt(dr)
        THEN (IF dc > 0 THEN edgeFaces(faceRight, faceLeft)
              ELSE edgeFaces(faceLeft, faceRight))
        ELSE IF dr > 0 THEN edgeFaces(faceBottom, faceTop)
        ELSE edgeFaces(faceTop, faceBottom)

\* An equal diagonal: its faces are chosen in the second pass.
IsFlexEdge(gi, e) ==
    LET dcol == gi.placement[e.Dst].col - gi.placement[e.Src].col
        drow == gi.placement[e.Dst].row - gi.placement[e.Src].row
    IN  dcol # 0 /\ absInt(dcol) = absInt(drow)

\* faceLoad[nfKey{idx, f}]++
BumpLoad(load, idx, f) == [load EXCEPT ![<<idx, f>>] = @ + 1]

\* The faces a flex edge takes under the load counted so far.
FlexFaces(gi, e, load) ==
    LET dcol == gi.placement[e.Dst].col - gi.placement[e.Src].col
        drow == gi.placement[e.Dst].row - gi.placement[e.Src].row
        srcV == IF drow > 0 THEN faceBottom ELSE faceTop
        dstV == IF drow > 0 THEN faceTop ELSE faceBottom
        srcH == IF dcol > 0 THEN faceRight ELSE faceLeft
        dstH == IF dcol > 0 THEN faceLeft ELSE faceRight
    IN  edgeFaces(IF load[<<e.Src, srcH>>] < load[<<e.Src, srcV>>] THEN srcH ELSE srcV,
                  IF load[<<e.Dst, dstH>>] < load[<<e.Dst, dstV>>] THEN dstH ELSE dstV)

\* Pass 1 (flex = FALSE) and pass 2 (flex = TRUE) over g.Edges: the state is
\* the pair of edgeFaceMap and faceLoad.
RECURSIVE FacePass(_, _, _, _, _)
FacePass(gi, edges, flex, k, st) ==
    IF k > Len(edges) THEN st
    ELSE IF IsFlexEdge(gi, edges[k]) # flex THEN FacePass(gi, edges, flex, k + 1, st)
    ELSE LET e == edges[k]
             fs == IF flex THEN FlexFaces(gi, e, st.load)
                   ELSE selectFaces(gi.placement[e.Src], gi.placement[e.Dst])
         IN  FacePass(gi, edges, flex, k + 1,
                 [map  |-> [st.map EXCEPT ![k] = fs],
                  load |-> BumpLoad(BumpLoad(st.load, e.Src, fs.srcFace),
                                    e.Dst, fs.dstFace)])

edgeFaceMap(gi, edges) ==
    LET none == [map  |-> [k \in 1..Len(edges) |-> <<>>],
                 load |-> [key \in (DOMAIN gi.objects) \X Faces |-> 0]]
        pass1 == FacePass(gi, edges, FALSE, 1, none)
    IN  FacePass(gi, edges, TRUE, 1, pass1).map

\* portInfo{edge, isSource}; obj and face are those of the list it is in.
portInfo(k, isSource) == [edge |-> k, isSource |-> isSource]

\* faceEdges[nodeFaceKey{idx, f}]: the ports in the order they are appended.
RECURSIVE FaceEdgesFrom(_, _, _, _, _)
FaceEdgesFrom(edges, faces, idx, f, k) ==
    IF k > Len(edges) THEN <<>>
    ELSE (IF edges[k].Src = idx /\ faces[k].srcFace = f
          THEN <<portInfo(k, TRUE)>> ELSE <<>>)
         \o (IF edges[k].Dst = idx /\ faces[k].dstFace = f
             THEN <<portInfo(k, FALSE)>> ELSE <<>>)
         \o FaceEdgesFrom(edges, faces, idx, f, k + 1)

\* obj.Center()
Center(gi, idx) ==
    Pt(gi.objects[idx].TopLeft.x + gi.objects[idx].Width \div 2,
       gi.objects[idx].TopLeft.y + gi.objects[idx].Height \div 2)

neighborObj(edges, p) == IF p.isSource THEN edges[p.edge].Dst ELSE edges[p.edge].Src

\* The less function of sortAndSpreadPorts.
lessPort(gi, edges, f, a, b) ==
    IF f \in {faceTop, faceBottom}
    THEN Center(gi, neighborObj(edges, a)).x < Center(gi, neighborObj(edges, b)).x
    ELSE Center(gi, neighborObj(edges, a)).y < Center(gi, neighborObj(edges, b)).y

RECURSIVE InsertPort(_, _, _, _, _, _)
InsertPort(gi, edges, f, sorted, x, j) ==
    IF j >= 1 /\ lessPort(gi, edges, f, x, sorted[j])
    THEN InsertPort(gi, edges, f, sorted, x, j - 1)
    ELSE SubSeq(sorted, 1, j) \o <<x>> \o SubSeq(sorted, j + 1, Len(sorted))

RECURSIVE SortPorts(_, _, _, _, _, _)
SortPorts(gi, edges, f, list, k, sorted) ==
    IF k > Len(list) THEN sorted
    ELSE SortPorts(gi, edges, f, list, k + 1,
             InsertPort(gi, edges, f, sorted, list[k], Len(sorted)))

\* cornerGap := 12.0
cornerGap == Px(12)

\* facePoint at t = num / den.
facePoint(obj, f, num, den) ==
    LET left == obj.TopLeft.x
        top == obj.TopLeft.y
        right == left + obj.Width
        bottom == top + obj.Height
        side == IF f \in {faceTop, faceBottom} THEN obj.Width ELSE obj.Height
        fits == side - 2 * cornerGap >= 0
        usable == IF fits THEN side - 2 * cornerGap ELSE side
        gap == IF fits THEN cornerGap ELSE 0
        along == gap + (usable * num) \div den
    IN  CASE f = faceTop    -> Pt(left + along, top)
          [] f = faceBottom -> Pt(left + along, bottom)
          [] f = faceLeft   -> Pt(left, top + along)
          [] f = faceRight  -> Pt(right, top + along)

\* The sorted ports of a face.
SortedFace(gi, edges, faces, idx, f) ==
    SortPorts(gi, edges, f, FaceEdgesFrom(edges, faces, idx, f, 1), 1, <<>>)

\* The position sortAndSpreadPorts gives the port of edge k (source or not).
SpreadPort(gi, edges, faces, k, isSource) ==
    LET idx == IF isSource THEN edges[k].Src ELSE edges[k].Dst
        f == IF isSource THEN faces[k].srcFace ELSE faces[k].dstFace
        sorted == SortedFace(gi, edges, faces, idx, f)
        i == CHOOSE m \in 1..Len(sorted) : sorted[m] = portInfo(k, isSource)
    IN  facePoint(gi.objects[idx], f, i, Len(sorted) + 1)

\* len(faceEdges[nodeFaceKey{idx, f}])
FaceCount(edges, faces, idx, f) == Len(FaceEdgesFrom(edges, faces, idx, f, 1))

\* The ports as they are when nothing aligns them.
SpreadOnly(gi, edges, faces, k) ==
    [src |-> SpreadPort(gi, edges, faces, k, TRUE),
     dst |-> SpreadPort(gi, edges, faces, k, FALSE)]

\* Mutation of AlignPorts: step 2b left out.
AlignPortsSkipped(gi, edges, faces, k) == SpreadOnly(gi, edges, faces, k)

\* Step 2b for edge k: the ports of a straight edge between adjacent cells
\* take the X (or Y) of the port on the face with fewer ports.
AlignPorts(gi, edges, faces, k) ==
    LET e == edges[k]
        sc == gi.placement[e.Src]
        dc == gi.placement[e.Dst]
        sf == faces[k].srcFace
        df == faces[k].dstFace
        spread == SpreadOnly(gi, edges, faces, k)
        keepSrc == FaceCount(edges, faces, e.Src, sf) <= FaceCount(edges, faces, e.Dst, df)
        vertical == /\ sc.col = dc.col /\ absInt(sc.row - dc.row) = 1
                    /\ \/ sf = faceBottom /\ df = faceTop
                       \/ sf = faceTop /\ df = faceBottom
        horizontal == /\ sc.row = dc.row /\ absInt(sc.col - dc.col) = 1
                      /\ \/ sf = faceRight /\ df = faceLeft
                         \/ sf = faceLeft /\ df = faceRight
        alignX == IF keepSrc THEN spread.src.x ELSE spread.dst.x
        alignY == IF keepSrc THEN spread.src.y ELSE spread.dst.y
    IN  IF vertical
        THEN [src |-> Pt(alignX, spread.src.y), dst |-> Pt(alignX, spread.dst.y)]
        ELSE IF horizontal
        THEN [src |-> Pt(spread.src.x, alignY), dst |-> Pt(spread.dst.x, alignY)]
        ELSE spread

\* nodeBox(obj, margin)
nodeBox(obj, margin) ==
    [left   |-> obj.TopLeft.x - margin,
     top    |-> obj.TopLeft.y - margin,
     right  |-> obj.TopLeft.x + obj.Width + margin,
     bottom |-> obj.TopLeft.y + obj.Height + margin]

\* box := nodeBox(obj, 4.0)
nodeMargin == Px(4)

\* A parameter t of the Liang-Barsky clipping as the fraction n / d, d > 0.
Frac(n, d) == IF d < 0 THEN [n |-> -n, d |-> -d] ELSE [n |-> n, d |-> d]

FracLess(a, b) == a.n * b.d < b.n * a.d

\* clip(p, q) on the window [tMin, tMax]; ok tells whether it returned true.
clip(w, p, q) ==
    IF ~w.ok THEN w
    ELSE IF p = 0 THEN [w EXCEPT !.ok = (q >= 0)]
    ELSE LET t == Frac(q, p) IN
         IF p < 0
         THEN IF FracLess(w.tMax, t) THEN [w EXCEPT !.ok = FALSE]
              ELSE IF FracLess(w.tMin, t) THEN [w EXCEPT !.tMin = t]
              ELSE w
         ELSE IF FracLess(t, w.tMin) THEN [w EXCEPT !.ok = FALSE]
              ELSE IF FracLess(t, w.tMax) THEN [w EXCEPT !.tMax = t]
              ELSE w

segmentIntersectsBox(p1, p2, box) ==
    LET minX == Min2(p1.x, p2.x)
        maxX == Max2(p1.x, p2.x)
        minY == Min2(p1.y, p2.y)
        maxY == Max2(p1.y, p2.y)
        dx == p2.x - p1.x
        dy == p2.y - p1.y
        w0 == [ok |-> TRUE, tMin |-> Frac(0, 1), tMax |-> Frac(1, 1)]
        w4 == clip(clip(clip(clip(w0, -dx, p1.x - box.left),
                             dx, box.right - p1.x),
                        -dy, p1.y - box.top),
                   dy, box.bottom - p1.y)
    IN  IF maxX < box.left \/ minX > box.right \/ maxY < box.top \/ minY > box.bottom
        THEN FALSE
        ELSE IF Abs(p1.x - p2.x) < tol \/ Abs(p1.y - p2.y) < tol THEN TRUE
        ELSE w4.ok /\ ~FracLess(w4.tMax, w4.tMin)

routeCrossesNode(route, gi, srcCell, dstCell) ==
    \E cell \in DOMAIN gi.occupied :
        /\ cell # srcCell
        /\ cell # dstCell
        /\ \E i \in 1..(Len(route) - 1) :
              segmentIntersectsBox(route[i], route[i + 1],
                  nodeBox(gi.objects[gi.occupied[cell]], nodeMargin))

findHorizontalChannel(srcY, dstY, srcCell, dstCell, gi) ==
    LET minR == Min2(srcCell.row, dstCell.row)
        maxR == Max2(srcCell.row, dstCell.row)
        aboveY == gi.rowY[srcCell.row]
        belowY == gi.rowY[srcCell.row] + gi.rowHeight[srcCell.row]
    IN  IF minR # maxR THEN gi.rowY[minR] + gi.rowHeight[minR]
        ELSE IF Abs(srcY - aboveY) < Abs(srcY - belowY) THEN aboveY
        ELSE belowY

findVerticalChannel(srcX, dstX, srcCell, dstCell, gi) ==
    LET minC == Min2(srcCell.col, dstCell.col)
        maxC == Max2(srcCell.col, dstCell.col)
        leftX == gi.colX[srcCell.col]
        rightX == gi.colX[srcCell.col] + gi.colWidth[srcCell.col]
    IN  IF minC # maxC THEN gi.colX[minC] + gi.colWidth[minC]
        ELSE IF Abs(srcX - leftX) < Abs(srcX - rightX) THEN leftX
        ELSE rightX

buildZRoute(src, dst, dstFace, srcCell, dstCell, gi) ==
    IF dstFace \in {faceTop, faceBottom}
    THEN LET channelY == findHorizontalChannel(src.y, dst.y, srcCell, dstCell, gi)
         IN  <<src, Pt(src.x, channelY), Pt(dst.x, channelY), dst>>
    ELSE LET channelX == findVerticalChannel(src.x, dst.x, srcCell, dstCell, gi)
         IN  <<src, Pt(channelX, src.y), Pt(channelX, dst.y), dst>>

perpendicularFace(f) == IF f \in {faceLeft, faceRight} THEN faceTop ELSE faceRight

oppositeFace(f) ==
    CASE f = faceTop    -> faceBottom
      [] f = faceBottom -> faceTop
      [] f = faceLeft   -> faceRight
      [] f = faceRight  -> faceLeft

constructRoute(srcPort, dstPort, srcFace, dstFace, srcCell, dstCell, gi) ==
    LET straight == <<srcPort, dstPort>>
        vertFirst == Pt(srcPort.x, dstPort.y)
        horizFirst == Pt(dstPort.x, srcPort.y)
        bendPrimary == IF srcFace \in {faceTop, faceBottom} THEN vertFirst
                       ELSE horizFirst
        bendAlt == IF srcFace \in {faceTop, faceBottom} THEN horizFirst
                   ELSE vertFirst
        lPrimary == <<srcPort, bendPrimary, dstPort>>
        lAlt == <<srcPort, bendAlt, dstPort>>
        zRoute == buildZRoute(srcPort, dstPort, dstFace, srcCell, dstCell, gi)
        perpFace == perpendicularFace(dstFace)
        zRoutePerp == buildZRoute(srcPort, dstPort, perpFace, srcCell, dstCell, gi)
        zRoutePerp2 == buildZRoute(srcPort, dstPort, oppositeFace(perpFace),
                                   srcCell, dstCell, gi)
    IN  IF /\ srcCell.row = dstCell.row \/ srcCell.col = dstCell.col
           /\ ~routeCrossesNode(straight, gi, srcCell, dstCell)
        THEN straight
        ELSE IF ~routeCrossesNode(lPrimary, gi, srcCell, dstCell) THEN lPrimary
        ELSE IF ~routeCrossesNode(lAlt, gi, srcCell, dstCell) THEN lAlt
        ELSE IF ~routeCrossesNode(zRoute, gi, srcCell, dstCell) THEN zRoute
        ELSE IF ~routeCrossesNode(zRoutePerp, gi, srcCell, dstCell) THEN zRoutePerp
        ELSE IF ~routeCrossesNode(zRoutePerp2, gi, srcCell, dstCell) THEN zRoutePerp2
        ELSE zRoute

----------------------------------------------------------------------------
(* Specification of Layout: gridPlacement, then gridRouteEdges *)

MaxLayoutNodes == 3

HubLeaves == 10

\* A hub with an edge to each of HubLeaves leaves: more neighbours than the
\* cells around the hub, so that some leaves are placed two cells away.
HubGraph ==
    [Objects   |-> ObjectsOf(HubLeaves + 1, <<SmallObject, SmallObject>>),
     Edges     |-> [k \in 1..HubLeaves |-> [Src |-> 0, Dst |-> k]],
     Direction |-> ""]

\* Seven nodes of one size whose placement leaves the edge 5 -> 6 two rows
\* and two columns long, with nodes next to both of its ends.
BlockedEdges ==
    <<<<1, 0>>, <<1, 5>>, <<3, 0>>, <<3, 1>>, <<4, 0>>, <<4, 6>>, <<5, 6>>>>

BlockedGraph ==
    [Objects   |-> ObjectsOf(7, <<SmallObject, SmallObject>>),
     Edges     |-> [k \in 1..Len(BlockedEdges) |->
                       [Src |-> BlockedEdges[k][1], Dst |-> BlockedEdges[k][2]]],
     Direction |-> ""]

LayoutGraphs ==
    {gr \in SmallGraphs : Cardinality(DOMAIN gr.Objects) <= MaxLayoutNodes}
        \cup {HubGraph, BlockedGraph}

LayoutInit ==
    /\ pc = "place"
    /\ g \in LayoutGraphs
    /\ BfsIdle
    /\ info = <<>>
    /\ SimplifyIdle
    /\ DijkstraIdle
    /\ CorridorIdle
    /\ RouteIdle
    /\ NudgeIdle
    /\ CallIdle

\* if len(g.Edges) > 0 { gridRouteEdges(g, info) }: nothing to route.
RouteNothing ==
    /\ pc = "placed"
    /\ Len(g.Edges) = 0
    /\ pc' = "routedAll"
    /\ UNCHANGED <<nudgeVars, callVars, routeVars, placeVars, simplifyVars, dijkstraVars, corridorVars>>

\* Steps 1, 2 and 2b: faces, spread ports, aligned ports of every edge.
AssignPorts ==
    /\ pc = "placed"
    /\ Len(g.Edges) > 0
    /\ LET faces == edgeFaceMap(info, g.Edges) IN
       edgePorts' = [k \in 1..Len(g.Edges) |->
           LET pp == AlignPorts(info, g.Edges, faces, k) IN
           [srcFace |-> faces[k].srcFace, dstFace |-> faces[k].dstFace,
            src |-> pp.src, dst |-> pp.dst]]
    /\ edgeRoute' = [k \in 1..Len(g.Edges) |-> <<>>]
    /\ routeIdx' = 1
    /\ pc' = "construct"
    /\ UNCHANGED <<nudgeVars, callVars, placeVars, simplifyVars, dijkstraVars, corridorVars>>

\* Step 3 for the next edge: e.Route = constructRoute(...)
ConstructRoute ==
    /\ pc = "construct"
    /\ routeIdx <= Len(g.Edges)
    /\ LET e == g.Edges[routeIdx]
           p == edgePorts[routeIdx]
       IN  edgeRoute' = [edgeRoute EXCEPT ![routeIdx] =
               constructRoute(p.src, p.dst, p.srcFace, p.dstFace,
                              info.placement[e.Src], info.placement[e.Dst], info)]
    /\ routeIdx' = routeIdx + 1
    /\ UNCHANGED <<nudgeVars, callVars, pc, edgePorts, placeVars, simplifyVars, dijkstraVars, corridorVars>>

\* Every edge has its route: return.
RouteReturnAll ==
    /\ pc = "construct"
    /\ routeIdx > Len(g.Edges)
    /\ pc' = "routedAll"
    /\ UNCHANGED <<nudgeVars, callVars, routeVars, placeVars, simplifyVars, dijkstraVars, corridorVars>>

LayoutNext ==
    \/ PlaceStart
    \/ BfsPop
    \/ BfsPlace
    \/ BfsDone
    \/ FillNode
    \/ FillDone
    \/ MoveStep
    \/ MovesDone
    \/ SwapStep
    \/ SwapsDone
    \/ PlaceReturn
    \/ RouteNothing
    \/ AssignPorts
    \/ ConstructRoute
    \/ RouteReturnAll

SpecLayout == LayoutInit /\ [][LayoutNext]_vars

\* The edges whose routes are written when gridRouteEdges has returned.
RoutedEdges == IF pc = "routedAll" THEN DOMAIN edgeRoute ELSE {}

(* C1: no segment of the route written to an edge intersects the box of any
   node other than the edge's source and destination, each such box being
   expanded by the 4-unit margin; this holds for whichever candidate
   constructRoute returns, the last-resort Z-route included. *)
C1_RoutesAvoidNodes ==
    \A k \in RoutedEdges : \A m \in DOMAIN info.objects :
        (m # g.Edges[k].Src /\ m # g.Edges[k].Dst) =>
            \A i \in 1..(Len(edgeRoute[k]) - 1) :
                ~segmentIntersectsBox(edgeRoute[k][i], edgeRoute[k][i + 1],
                                      nodeBox(info.objects[m], nodeMargin))

(* C2: every route is orthogonal: for consecutive points p, q either
   |p.x - q.x| <= 0.5 or |p.y - q.y| <= 0.5, the 2-point straight candidate
   between cells of one row or column at any distance included. *)
C2_RoutesOrthogonal ==
    \A k \in RoutedEdges : \A i \in 1..(Len(edgeRoute[k]) - 1) :
        \/ Abs(edgeRoute[k][i].x - edgeRoute[k][i + 1].x) <= tol
        \/ Abs(edgeRoute[k][i].y - edgeRoute[k][i + 1].y) <= tol

\* Point p lies on face f of object obj.
OnFace(p, obj, f) ==
    LET b == nodeBox(obj, 0) IN
    CASE f = faceTop    -> p.y = b.top /\ b.left <= p.x /\ p.x <= b.right
      [] f = faceBottom -> p.y = b.bottom /\ b.left <= p.x /\ p.x <= b.right
      [] f = faceLeft   -> p.x = b.left /\ b.top <= p.y /\ p.y <= b.bottom
      [] f = faceRight  -> p.x = b.right /\ b.top <= p.y /\ p.y <= b.bottom

(* C3: the first route point lies on the boundary of the source node's box
   and the last route point on the boundary of the destination node's box,
   each on the face chosen for that endpoint, also after the straight-edge
   alignment of nodes of different widths or heights. *)
C3_EndpointsOnFaces ==
    \A k \in RoutedEdges :
        /\ OnFace(edgeRoute[k][1], info.objects[g.Edges[k].Src],
                  edgePorts[k].srcFace)
        /\ OnFace(edgeRoute[k][Len(edgeRoute[k])], info.objects[g.Edges[k].Dst],
                  edgePorts[k].dstFace)

\* Edge k joins cells of one row (column) at column (row) distance 1.
AdjacentInRow(k) ==
    LET sc == info.placement[g.Edges[k].Src]
        dc == info.placement[g.Edges[k].Dst]
    IN  sc.row = dc.row /\ absInt(sc.col - dc.col) = 1

AdjacentInCol(k) ==
    LET sc == info.placement[g.Edges[k].Src]
        dc == info.placement[g.Edges[k].Dst]
    IN  sc.col = dc.col /\ absInt(sc.row - dc.row) = 1

(* C6: an edge between cells of one row at column distance 1 gets a route of
   exactly 2 points with equal y; an edge between cells of one column at row
   distance 1 gets a route of exactly 2 points with equal x; whatever other
   edges share the two faces. *)
C6_AdjacentStraight ==
    \A k \in RoutedEdges :
        /\ AdjacentInRow(k) =>
              Len(edgeRoute[k]) = 2 /\ edgeRoute[k][1].y = edgeRoute[k][2].y
        /\ AdjacentInCol(k) =>
              Len(edgeRoute[k]) = 2 /\ edgeRoute[k][1].x = edgeRoute[k][2].x

\* A routed edge between adjacent cells of a row, on objects of different
\* heights, whose ports the spread alone would have left at different y
\* (another edge shares one of its faces), and whose route has 2 points.
C6_Witness ==
    /\ pc = "routedAll"
    /\ \E k \in DOMAIN edgeRoute :
          /\ AdjacentInRow(k)
          /\ g.Objects[g.Edges[k].Src].Height # g.Objects[g.Edges[k].Dst].Height
          /\ LET spread == SpreadOnly(info, g.Edges, edgeFaceMap(info, g.Edges), k)
             IN  spread.src.y # spread.dst.y
          /\ Len(edgeRoute[k]) = 2

(* C11: simplifyRoute is idempotent: simplifying the output of simplifyRoute
   once more gives the same sequence, point for point. *)
C11_Idempotent ==
    pc = "simplified" => simplifyRoute(sOut) = sOut

\* Two points coincide within the tolerance on both axes.
Coincide(p, q) == nearEq(p.x, q.x) /\ nearEq(p.y, q.y)

\* Three points whose x are all within the tolerance of each other, or
\* whose y are.
CollinearWithin(p, q, r) ==
    \/ nearEq(p.x, q.x) /\ nearEq(q.x, r.x) /\ nearEq(p.x, r.x)
    \/ nearEq(p.y, q.y) /\ nearEq(q.y, r.y) /\ nearEq(p.y, r.y)

(* C12: the output of simplifyRoute has no two consecutive points that
   coincide within 0.5 on both axes and no three consecutive points that are
   collinear within 0.5 (all three x within 0.5 of each other, or all three
   y). *)
C12_NoDuplicateNoCollinear ==
    pc = "simplified" =>
        /\ \A i \in 1..(Len(sOut) - 1) : ~Coincide(sOut[i], sOut[i + 1])
        /\ \A i \in 1..(Len(sOut) - 2) :
              ~CollinearWithin(sOut[i], sOut[i + 1], sOut[i + 2])

----------------------------------------------------------------------------
(* nudgeRoutes (d2wueortho/nudging.go): parallel segments that share a     *)
(* corridor are moved apart.  Routes are sequences of points; an edge is    *)
(* identified by the position of its route in the list, a segment by the    *)
(* position of its first point.                                             *)

Left(r) == r.X
Right(r) == r.X + r.W
Top(r) == r.Y
Bottom(r) == r.Y + r.H

MaxFloat64 == 2147483647

\* EdgeOrdering.HKey / VKey: the key of the edge, MaxFloat64 when absent.
HKey(ordering, edgeIdx) ==
    IF edgeIdx \in DOMAIN ordering.hKeys THEN ordering.hKeys[edgeIdx] ELSE MaxFloat64

VKey(ordering, edgeIdx) ==
    IF edgeIdx \in DOMAIN ordering.vKeys THEN ordering.vKeys[edgeIdx] ELSE MaxFloat64

\* math.Round(x / 1.0): to the nearest integer, halves away from zero.
fixedBucket(x) ==
    IF x >= 0 THEN (x + Px(1) \div 2) \div Px(1)
    ELSE -((-x + Px(1) \div 2) \div Px(1))

\* The segment of route ri that starts at point i, or <<>> when the loop of
\* nudgeRoutes skips it (diagonal or shorter than 0.5).
edgeSegment(rts, ri, i) ==
    LET p1 == rts[ri][i]
        p2 == rts[ri][i + 1]
        seg == IF p1.y = p2.y
               THEN [edgeIdx |-> ri, segIdx |-> i, orientation |-> Horizontal,
                     fixedCoord |-> p1.y,
                     rangeMin |-> Min2(p1.x, p2.x), rangeMax |-> Max2(p1.x, p2.x)]
               ELSE [edgeIdx |-> ri, segIdx |-> i, orientation |-> Vertical,
                     fixedCoord |-> p1.x,
                     rangeMin |-> Min2(p1.y, p2.y), rangeMax |-> Max2(p1.y, p2.y)]
    IN IF p1.y # p2.y /\ p1.x # p2.x THEN <<>>
       ELSE IF seg.rangeMax - seg.rangeMin < Px(1) \div 2 THEN <<>>
       ELSE <<seg>>

RECURSIVE RouteSegsFrom(_, _, _)
RouteSegsFrom(rts, ri, i) ==
    IF i > Len(rts[ri]) - 1 THEN <<>>
    ELSE edgeSegment(rts, ri, i) \o RouteSegsFrom(rts, ri, i + 1)

RECURSIVE AllSegsFrom(_, _)
AllSegsFrom(rts, ri) ==
    IF ri > Len(rts) THEN <<>>
    ELSE RouteSegsFrom(rts, ri, 1) \o AllSegsFrom(rts, ri + 1)

\* sort.Slice by rangeMin; slices this short are insertion-sorted, which
\* keeps the order of equal elements.
RECURSIVE InsertByRangeMin(_, _)
InsertByRangeMin(sorted, s) ==
    IF sorted = <<>> THEN <<s>>
    ELSE IF s.rangeMin < sorted[Len(sorted)].rangeMin
         THEN InsertByRangeMin(SubSeq(sorted, 1, Len(sorted) - 1), s)
              \o <<sorted[Len(sorted)]>>
         ELSE Append(sorted, s)

RECURSIVE SortByRangeMin(_)
SortByRangeMin(segs) ==
    IF segs = <<>> THEN <<>>
    ELSE InsertByRangeMin(SortByRangeMin(SubSeq(segs, 1, Len(segs) - 1)),
                          segs[Len(segs)])

\* The inner loop of findOverlappingSegments: j runs over the segments after
\* i, joining the unused ones that start before groupMax - 0.5.
RECURSIVE GrowGroup(_, _, _, _, _)
GrowGroup(segs, j, used, group, groupMax) ==
    IF j > Len(segs) THEN [group |-> group, used |-> used]
    ELSE IF j \notin used /\ segs[j].rangeMin < groupMax - Px(1) \div 2
         THEN GrowGroup(segs, j + 1, used \cup {j}, Append(group, segs[j]),
                        Max2(groupMax, segs[j].rangeMax))
         ELSE GrowGroup(segs, j + 1, used, group, groupMax)

RECURSIVE OverlapFrom(_, _, _)
OverlapFrom(segs, i, used) ==
    IF i > Len(segs) THEN <<>>
    ELSE IF i \in used THEN OverlapFrom(segs, i + 1, used)
    ELSE LET r == GrowGroup(segs, i + 1, used \cup {i}, <<segs[i]>>, segs[i].rangeMax)
         IN <<r.group>> \o OverlapFrom(segs, i + 1, r.used)

findOverlappingSegments(segs) == OverlapFrom(SortByRangeMin(segs), 1, {})

bundleKey(s) == <<s.orientation, fixedBucket(s.fixedCoord)>>

\* The segments of one key, in the order they were appended.
GroupOf(segs, key) == SelectSeq(segs, LAMBDA s : bundleKey(s) = key)

\* groupIntoBundles: the map of groups is ranged over in no fixed order, so
\* the result is kept as a set.
groupIntoBundles(segs) ==
    LET keys == {bundleKey(segs[k]) : k \in 1..Len(segs)}
    IN UNION {
         IF Len(GroupOf(segs, key)) <= 1 THEN {}
         ELSE LET overlapping == findOverlappingSegments(GroupOf(segs, key))
              IN {[orientation |-> key[1],
                   fixedCoord |-> overlapping[k][1].fixedCoord,
                   segments |-> overlapping[k]] :
                     k \in {q \in 1..Len(overlapping) : Len(overlapping[q]) > 1}}
         : key \in keys}

RECURSIVE ChannelBoundsFrom(_, _, _)
ChannelBoundsFrom(bundle, channels, k) ==
    IF k > Len(channels)
    THEN <<bundle.fixedCoord - Px(10), bundle.fixedCoord + Px(10)>>
    ELSE LET ch == channels[k]
         IN IF /\ bundle.orientation = Horizontal /\ ch.Orientation = Horizontal
               /\ bundle.fixedCoord >= Top(ch.Rect) - Px(1)
               /\ bundle.fixedCoord <= Bottom(ch.Rect) + Px(1)
            THEN <<Top(ch.Rect), Bottom(ch.Rect)>>
            ELSE IF /\ bundle.orientation = Vertical /\ ch.Orientation = Vertical
                    /\ bundle.fixedCoord >= Left(ch.Rect) - Px(1)
                    /\ bundle.fixedCoord <= Right(ch.Rect) + Px(1)
            THEN <<Left(ch.Rect), Right(ch.Rect)>>
            ELSE ChannelBoundsFrom(bundle, channels, k + 1)

findChannelBounds(bundle, channels) == ChannelBoundsFrom(bundle, channels, 1)

\* The comparison that sorts uniqueEdges in nudgeRoutes.
edgeBefore(ordering, orientation, ei, ej) ==
    LET ki == IF orientation = Horizontal THEN HKey(ordering, ei) ELSE VKey(ordering, ei)
        kj == IF orientation = Horizontal THEN HKey(ordering, ej) ELSE VKey(ordering, ej)
    IN IF ki # kj THEN ki < kj ELSE ei < ej

RECURSIVE SortEdges(_, _, _)
SortEdges(edgeSet, ordering, orientation) ==
    IF edgeSet = {} THEN <<>>
    ELSE LET first == CHOOSE e \in edgeSet :
                         \A f \in edgeSet \ {e} : edgeBefore(ordering, orientation, e, f)
         IN <<first>> \o SortEdges(edgeSet \ {first}, ordering, orientation)

uniqueEdgesOf(bundle, ordering) ==
    SortEdges({bundle.segments[k].edgeIdx : k \in 1..Len(bundle.segments)},
              ordering, bundle.orientation)

minSpacing == Px(10)

nudgeMargin == minSpacing \div 2

\* The longest path of the chain source -> 0 -> ... -> n-1 -> sink; slot i
\* is counted from 0, slot n is the sink.
RECURSIVE dist(_, _)
dist(n, i) ==
    IF i = 0 THEN nudgeMargin
    ELSE IF i = n THEN dist(n, n - 1) + nudgeMargin
    ELSE dist(n, i - 1) + minSpacing

\* constraintNudge: ok and the offset of every edge from bundle.fixedCoord.
constraintNudge(uniqueEdges, bundle, chMin, chMax) ==
    LET n == Len(uniqueEdges)
        totalRequired == dist(n, n)
        channelWidth == chMax - chMin
        slack == channelWidth - totalRequired
        offset == slack \div 2
    IN IF totalRequired > channelWidth + Px(1) \div 2
       THEN [ok |-> FALSE, edgePosition |-> <<>>]
       ELSE [ok |-> TRUE,
             edgePosition |->
                 [e \in {uniqueEdges[k] : k \in 1..n} |->
                     LET i == CHOOSE k \in 1..n : uniqueEdges[k] = e
                     IN (chMin + offset + dist(n, i - 1)) - bundle.fixedCoord]]

evenDistribution(uniqueEdges, fixedCoord, chMin, channelWidth) ==
    LET n == Len(uniqueEdges)
    IN [e \in {uniqueEdges[k] : k \in 1..n} |->
           LET i == CHOOSE k \in 1..n : uniqueEdges[k] = e
           IN (chMin + (channelWidth * i) \div (n + 1)) - fixedCoord]

\* applySegment without the test for the first and last point.
applySegmentMovingPorts(rts, orientation, seg, offsets) ==
    LET offset == offsets[seg.edgeIdx]
        pts == rts[seg.edgeIdx]
        moved(p) == IF orientation = Horizontal
                    THEN [x |-> p.x, y |-> p.y + offset]
                    ELSE [x |-> p.x + offset, y |-> p.y]
    IN IF Abs(offset) < Px(1) \div 10 THEN rts
       ELSE IF seg.segIdx >= Len(pts) THEN rts
       ELSE [rts EXCEPT ![seg.edgeIdx] =
               [k \in 1..Len(pts) |->
                  IF k = seg.segIdx \/ k = seg.segIdx + 1 THEN moved(pts[k])
                  ELSE pts[k]]]

\* One iteration of the loop of applyNudgeOffsets.
applySegment(rts, orientation, seg, offsets) ==
    LET offset == offsets[seg.edgeIdx]
        pts == rts[seg.edgeIdx]
        isFirstPt == seg.segIdx = 1
        isLastPt == seg.segIdx + 1 = Len(pts)
        moved(p) == IF orientation = Horizontal
                    THEN [x |-> p.x, y |-> p.y + offset]
                    ELSE [x |-> p.x + offset, y |-> p.y]
    IN IF Abs(offset) < Px(1) \div 10 THEN rts
       ELSE IF seg.segIdx >= Len(pts) THEN rts
       ELSE [rts EXCEPT ![seg.edgeIdx] =
               [k \in 1..Len(pts) |->
                  IF k = seg.segIdx /\ ~isFirstPt THEN moved(pts[k])
                  ELSE IF k = seg.segIdx + 1 /\ ~isLastPt THEN moved(pts[k])
                  ELSE pts[k]]]

RECURSIVE ApplyFrom(_, _, _, _)
ApplyFrom(rts, bundle, offsets, k) ==
    IF k > Len(bundle.segments) THEN rts
    ELSE ApplyFrom(applySegment(rts, bundle.orientation, bundle.segments[k], offsets),
                   bundle, offsets, k + 1)

applyNudgeOffsets(rts, bundle, offsets) == ApplyFrom(rts, bundle, offsets, 1)

\* The body of the loop over bundles in nudgeRoutes: what it decided for the
\* bundle and the routes it leaves.
nudgeBundle(rts, bundle, channels, ordering) ==
    LET bounds == findChannelBounds(bundle, channels)
        chMin == bounds[1]
        chMax == bounds[2]
        channelWidth == chMax - chMin
        uniqueEdges == uniqueEdgesOf(bundle, ordering)
        cn == constraintNudge(uniqueEdges, bundle, chMin, chMax)
        edgePosition == IF cn.ok THEN cn.edgePosition
                        ELSE evenDistribution(uniqueEdges, bundle.fixedCoord,
                                              chMin, channelWidth)
        skipped == \/ Len(bundle.segments) <= 1
                   \/ channelWidth < Px(4)
                   \/ Len(uniqueEdges) <= 1
    IN [bundle |-> bundle, chMin |-> chMin, chMax |-> chMax,
        uniqueEdges |-> uniqueEdges, skipped |-> skipped, ok |-> cn.ok,
        edgePosition |-> IF skipped THEN <<>> ELSE edgePosition,
        routes |-> IF skipped THEN rts
                   ELSE applyNudgeOffsets(rts, bundle, edgePosition)]

(* nudgeRoutes as a process: the segments are decomposed and bundled once,  *)
(* then the bundles are nudged one at a time, in any order.                 *)

MaxNudgeRoutes == 3

ZRoute(y0, xm, y1) == <<Pt(0, y0), Pt(xm, y0), Pt(xm, y1), Pt(Px(200), y1)>>

LRoute(y0, xm, y1) == <<Pt(0, y0), Pt(xm, y0), Pt(xm, y1)>>

StraightRoute(y0) == <<Pt(0, y0), Pt(Px(200), y0)>>

\* 100.4 falls in the bucket of 100.
NudgeRouteSet ==
    { ZRoute(0, Px(100), Px(80)),
      ZRoute(Px(20), Px(100), Px(100)),
      ZRoute(Px(40), Px(100) + 24, Px(60)),
      LRoute(Px(10), Px(100), Px(90)),
      LRoute(Px(30), Px(100), Px(110)),
      StraightRoute(0) }

NudgeRouteLists ==
    UNION {[1..n -> NudgeRouteSet] : n \in 1..MaxNudgeRoutes}

VChannel(left, right) ==
    [Orientation |-> Vertical,
     Rect |-> [X |-> left, Y |-> 0, W |-> right - left, H |-> Px(120)]]

HChannel(top, bottom) ==
    [Orientation |-> Horizontal,
     Rect |-> [X |-> 0, Y |-> top, W |-> Px(200), H |-> bottom - top]]

NudgeChannelLists ==
    { <<>>,
      <<HChannel(-Px(20), Px(20)), VChannel(Px(80), Px(120))>>,
      <<VChannel(Px(90), Px(109) + Px(1) \div 2)>>,
      <<VChannel(Px(95), Px(105))>>,
      <<VChannel(Px(99), Px(101))>> }

NudgeOrderings ==
    { [hKeys |-> <<>>, vKeys |-> <<>>],
      [hKeys |-> <<>>, vKeys |-> <<2, 1>>],
      [hKeys |-> <<1, 1>>, vKeys |-> <<3, 3, 1>>] }

NudgeInit ==
    /\ pc = "nudge"
    /\ \E rts \in NudgeRouteLists, chs \in NudgeChannelLists, ord \in NudgeOrderings :
          /\ nIn = [routes |-> rts, channels |-> chs, ordering |-> ord]
          /\ nRoutes = rts
    /\ nBundles = {}
    /\ nApplied = {}
    /\ SimplifyIdle
    /\ DijkstraIdle
    /\ CorridorIdle
    /\ PlaceIdle
    /\ RouteIdle
    /\ CallIdle

\* nudgeRoutes up to the loop over the bundles.
NudgeDecompose ==
    /\ pc = "nudge"
    /\ IF Len(nRoutes) <= 1
       THEN pc' = "nudged" /\ UNCHANGED nBundles
       ELSE /\ nBundles' = groupIntoBundles(AllSegsFrom(nRoutes, 1))
            /\ pc' = "bundles"
    /\ UNCHANGED <<nIn, nRoutes, nApplied, callVars, simplifyVars, dijkstraVars,
                   corridorVars, placeVars, routeVars>>

\* One iteration of the loop over the bundles.
NudgeBundle ==
    /\ pc = "bundles"
    /\ \E bundle \in nBundles :
          LET r == nudgeBundle(nRoutes, bundle, nIn.channels, nIn.ordering)
          IN /\ nRoutes' = r.routes
             /\ nApplied' = nApplied \cup
                   {[bundle |-> r.bundle, chMin |-> r.chMin, chMax |-> r.chMax,
                     uniqueEdges |-> r.uniqueEdges, skipped |-> r.skipped,
                     ok |-> r.ok, edgePosition |-> r.edgePosition]}
             /\ nBundles' = nBundles \ {bundle}
    /\ UNCHANGED <<pc, nIn, callVars, simplifyVars, dijkstraVars,
                   corridorVars, placeVars, routeVars>>

NudgeReturn ==
    /\ pc = "bundles"
    /\ nBundles = {}
    /\ pc' = "nudged"
    /\ UNCHANGED <<nudgeVars, callVars, simplifyVars, dijkstraVars,
                   corridorVars, placeVars, routeVars>>

NudgeNext == NudgeDecompose \/ NudgeBundle \/ NudgeReturn

SpecNudge == NudgeInit /\ [][NudgeNext]_vars

\* The bundled segments that are the first or the last segment of a route.
PortSegments(b) ==
    {k \in 1..Len(b.bundle.segments) :
        LET seg == b.bundle.segments[k]
        IN seg.segIdx = 1 \/ seg.segIdx + 1 = Len(nIn.routes[seg.edgeIdx])}

(* C13: nudging never moves a port: whatever routes, channels and ordering  *)
(* nudgeRoutes is given, and whatever bundles the first and last segments   *)
(* of a route belong to, the first and the last point of every route keep   *)
(* exactly the coordinates they had before.                                 *)
C13_PortsNotMoved ==
    pc \in {"bundles", "nudged"} =>
        \A ri \in 1..Len(nRoutes) :
            /\ Len(nRoutes[ri]) = Len(nIn.routes[ri])
            /\ nRoutes[ri][1] = nIn.routes[ri][1]
            /\ nRoutes[ri][Len(nRoutes[ri])] = nIn.routes[ri][Len(nIn.routes[ri])]

\* A bundle holding a first or last segment was nudged by a nonzero offset
\* and the route of that segment changed.
C13_Witness ==
    /\ pc = "nudged"
    /\ \E b \in nApplied :
          /\ ~b.skipped
          /\ \E k \in PortSegments(b) :
                LET seg == b.bundle.segments[k]
                IN /\ Abs(b.edgePosition[seg.edgeIdx]) >= Px(1) \div 10
                   /\ nRoutes[seg.edgeIdx] # nIn.routes[seg.edgeIdx]

(* C14: routes stay orthogonal through nudging: when every route handed to  *)
(* nudgeRoutes has only exactly horizontal and vertical segments, every     *)
(* pair of consecutive points of every route afterwards has |dx| <= 0.5 or  *)
(* |dy| <= 0.5, the first and last segment of a route included.             *)
C14_NudgedOrthogonal ==
    pc = "nudged" =>
        \A ri \in 1..Len(nRoutes) :
            \A i \in 1..(Len(nRoutes[ri]) - 1) :
                \/ Abs(nRoutes[ri][i + 1].x - nRoutes[ri][i].x) <= Px(1) \div 2
                \/ Abs(nRoutes[ri][i + 1].y - nRoutes[ri][i].y) <= Px(1) \div 2

\* The absolute position constraintNudge computed for the k-th edge.
AbsPos(b, k) == b.edgePosition[b.uniqueEdges[k]] + b.bundle.fixedCoord

\* The bundled segments that lie between two bends of their route.
InnerSegments(b) == (1..Len(b.bundle.segments)) \ PortSegments(b)

\* The coordinate a segment has across the channel after nudging.
ChannelCoord(orientation, seg) ==
    IF orientation = Horizontal THEN nRoutes[seg.edgeIdx][seg.segIdx].y
    ELSE nRoutes[seg.edgeIdx][seg.segIdx].x

(* C15: for a bundle of n >= 2 distinct edges in a channel at least         *)
(* 10*n - 0.5 wide, constraintNudge succeeds; the positions follow the      *)
(* order of the ordering keys (ties by edge index), consecutive positions   *)
(* are exactly minSpacing = 10 apart and every position is at least 4.75    *)
(* inside the channel bounds; and so the nudged channel coordinates of any  *)
(* two edges of the bundle differ by at least the edge spacing.             *)
C15_ConstraintSpacing ==
    \A b \in nApplied :
        LET n == Len(b.uniqueEdges)
        IN (n >= 2 /\ b.chMax - b.chMin >= n * Px(10) - Px(1) \div 2) =>
            /\ b.ok /\ ~b.skipped
            /\ \A i, j \in 1..n :
                  i < j => edgeBefore(nIn.ordering, b.bundle.orientation,
                                      b.uniqueEdges[i], b.uniqueEdges[j])
            /\ \A i \in 1..(n - 1) : AbsPos(b, i + 1) - AbsPos(b, i) = minSpacing
            /\ \A i \in 1..n :
                  /\ AbsPos(b, i) - b.chMin >= Px(5) - Px(1) \div 4
                  /\ b.chMax - AbsPos(b, i) >= Px(5) - Px(1) \div 4
            /\ pc = "nudged" =>
                  \A k1, k2 \in InnerSegments(b) :
                      LET s1 == b.bundle.segments[k1]
                          s2 == b.bundle.segments[k2]
                      IN s1.edgeIdx # s2.edgeIdx =>
                            Abs(ChannelCoord(b.bundle.orientation, s1)
                                - ChannelCoord(b.bundle.orientation, s2)) >= minSpacing

----------------------------------------------------------------------------
(* routeAllEdges on routing graphs where some edge cannot be routed: the    *)
(* empty graph, and the nodes of the corridor graph joined by the two       *)
(* crossing corridors only, which leaves the corner nodes unreachable.      *)

\* The corridors 1-6 and 3-4, alone or with the border edge 0-3.
InfeasiblePresent == {{4, 6}, {3, 4, 6}}

InfeasibleGraphs ==
    {[Nodes |-> <<>>, Adj |-> <<>>]} \cup
    {MakeRoutingGraph(CorridorNodes(h), CorridorPairs, present) :
        h \in CorridorHeights, present \in InfeasiblePresent}

\* Ports sit on the positions of nodes 0, 1, 3 and 4.
InfeasibleSites == {0, 1, 3, 4}

InfeasiblePortPairs ==
    LET nodes == CorridorNodes(Px(200) + 10)
    IN {[Src |-> Port(sp[1], nodes[a]), Dst |-> Port(sp[2], nodes[b])] :
           a \in InfeasibleSites, b \in InfeasibleSites, sp \in SidePairs}

InfeasibleInit ==
    /\ pc = "routeAll"
    /\ rg \in InfeasibleGraphs
    /\ \E n \in 1..MaxRoutes : ports \in [1..n -> InfeasiblePortPairs]
    /\ order = <<>>
    /\ oi = 0
    /\ routedSegments = <<>>
    /\ routes = <<>>
    /\ djSrc = -1 /\ djDst = -1 /\ dj = <<>> /\ djPath = <<>>
    /\ SimplifyIdle
    /\ PlaceIdle
    /\ RouteIdle
    /\ NudgeIdle
    /\ CallIdle

SpecInfeasible == InfeasibleInit /\ [][CorridorNext]_vars

\* The graph with every weight at the geometric length of its edge.
BaseGraph(rgraph) ==
    [rgraph EXCEPT !.Adj =
        [id \in DOMAIN rgraph.Adj |->
            [ei \in 1..Len(rgraph.Adj[id]) |->
                [rgraph.Adj[id][ei] EXCEPT
                    !.Weight = BaseLength(rgraph.Nodes, rgraph.Adj[id][ei])]]]]

\* The edge at the head of the loop has no two distinct graph nodes.
NoSearch ==
    /\ pc = "nextEdge"
    /\ oi <= Len(order)
    /\ LET srcNodeID == FindNearest(rg.Nodes, ports[order[oi]].Src.Pos)
           dstNodeID == FindNearest(rg.Nodes, ports[order[oi]].Dst.Pos)
       IN srcNodeID < 0 \/ dstNodeID < 0 \/ srcNodeID = dstNodeID

\* The step in which dijkstraRoute returns no path.
NoPath == pc = "dijkstraRunning" /\ pc' = "nextEdge" /\ djPath' = <<>>

(* C17: routing infeasibility is not an error: when the routing graph is    *)
(* empty, when both ports map to the same graph node, or when dijkstraRoute *)
(* finds no path, routeAllEdges gives the edge exactly the two-point route  *)
(* from the source port to the destination port, leaves the routing-graph   *)
(* weights unchanged, records no routed segment and goes on to the next     *)
(* edge.                                                                    *)
C17_InfeasibleFallsBack ==
    [][/\ NoSearch =>
            /\ routes' = [routes EXCEPT ![order[oi]] = DirectRoute(ports, order[oi])]
            /\ rg' = rg
            /\ routedSegments' = routedSegments
            /\ oi' = oi + 1 /\ pc' = "nextEdge"
       /\ NoPath =>
            /\ routes' = [routes EXCEPT ![order[oi]] = DirectRoute(ports, order[oi])]
            /\ routedSegments' = routedSegments
            /\ oi' = oi + 1
            /\ rg = addCrossingPenalties(BaseGraph(rg), routedSegments)
                  => rg' = BaseGraph(rg)]_vars

----------------------------------------------------------------------------
(* assignPorts (d2gridrouter/portassign.go).  Boxes are Rect records, an    *)
(* edge is a pair of box indices, a port is named by its edge and its end.  *)

Rect(x, y, w, h) == [X |-> x, Y |-> y, W |-> w, H |-> h]

CenterX(r) == r.X + r.W \div 2
CenterY(r) == r.Y + r.H \div 2

\* determineSides: the dominant direction between the centres, with the
\* destination side turned for an L-shape when the other component exceeds
\* a quarter of the dominant one.
determineSides(src, dst) ==
    LET dx == CenterX(dst) - CenterX(src)
        dy == CenterY(dst) - CenterY(src)
        absDx == Abs(dx)
        absDy == Abs(dy)
    IN IF absDx > absDy
       THEN <<IF dx > 0 THEN DirRight ELSE DirLeft,
              IF 4 * absDy > absDx
              THEN (IF dy > 0 THEN DirTop ELSE DirBottom)
              ELSE (IF dx > 0 THEN DirLeft ELSE DirRight)>>
       ELSE IF absDy > absDx
       THEN <<IF dy > 0 THEN DirBottom ELSE DirTop,
              IF 4 * absDx > absDy
              THEN (IF dx > 0 THEN DirLeft ELSE DirRight)
              ELSE (IF dy > 0 THEN DirTop ELSE DirBottom)>>
       ELSE <<IF dx > 0 THEN DirRight ELSE DirLeft,
              IF dy > 0 THEN DirTop ELSE DirBottom>>

nextSide(s) ==
    CASE s = DirTop -> DirRight
      [] s = DirRight -> DirBottom
      [] s = DirBottom -> DirLeft
      [] s = DirLeft -> DirTop

\* selfLoopSides: the first side, in the order Top, Right, Bottom, Left,
\* with the fewest ports, and its clockwise neighbour.
selfLoopSides(nodeIdx, sideCount) ==
    LET sides == <<DirTop, DirRight, DirBottom, DirLeft>>
        best == CHOOSE k \in 1..4 :
                   /\ \A j \in 1..4 :
                         sideCount[<<nodeIdx, sides[k]>>] <= sideCount[<<nodeIdx, sides[j]>>]
                   /\ \A j \in 1..(k - 1) :
                         sideCount[<<nodeIdx, sides[j]>>] > sideCount[<<nodeIdx, sides[k]>>]
    IN <<sides[best], nextSide(sides[best])>>

\* Step 1 of assignPorts: the sides of every edge, counted as they are given.
RECURSIVE SidesFrom(_, _, _, _, _)
SidesFrom(boxes, edges, i, sideCount, acc) ==
    IF i > Len(edges) THEN acc
    ELSE LET e == edges[i]
             sd == IF e.Src = e.Dst THEN selfLoopSides(e.Src, sideCount)
                   ELSE determineSides(boxes[e.Src], boxes[e.Dst])
             c1 == [sideCount EXCEPT ![<<e.Src, sd[1]>>] = @ + 1]
             c2 == [c1 EXCEPT ![<<e.Dst, sd[2]>>] = @ + 1]
         IN SidesFrom(boxes, edges, i + 1, c2, Append(acc, sd))

edgeSides(boxes, edges) ==
    SidesFrom(boxes, edges, 1,
              [k \in (1..Len(boxes)) \X {DirTop, DirRight, DirBottom, DirLeft} |-> 0],
              <<>>)

\* allPorts: the source ports in edge order, then the destination ports.
allPortIds(edges) ==
    [k \in 1..(2 * Len(edges)) |->
        IF k <= Len(edges) THEN [EdgeIdx |-> k, IsSrc |-> TRUE]
        ELSE [EdgeIdx |-> k - Len(edges), IsSrc |-> FALSE]]

portNode(edges, p) == IF p.IsSrc THEN edges[p.EdgeIdx].Src ELSE edges[p.EdgeIdx].Dst

portSide(sides, p) == IF p.IsSrc THEN sides[p.EdgeIdx][1] ELSE sides[p.EdgeIdx][2]

\* The coordinate sortPortsByNeighborAngle compares: the centre of the box
\* at the other end of the edge, along the side.
neighborCoord(boxes, edges, side, p) ==
    LET neighbor == boxes[IF p.IsSrc THEN edges[p.EdgeIdx].Dst ELSE edges[p.EdgeIdx].Src]
    IN IF side \in {DirTop, DirBottom} THEN CenterX(neighbor) ELSE CenterY(neighbor)

RECURSIVE InsertPortByAngle(_, _, _, _, _)
InsertPortByAngle(boxes, edges, side, sorted, p) ==
    IF sorted = <<>> THEN <<p>>
    ELSE IF neighborCoord(boxes, edges, side, p)
              < neighborCoord(boxes, edges, side, sorted[Len(sorted)])
         THEN InsertPortByAngle(boxes, edges, side,
                                SubSeq(sorted, 1, Len(sorted) - 1), p)
              \o <<sorted[Len(sorted)]>>
         ELSE Append(sorted, p)

RECURSIVE sortPortsByNeighborAngle(_, _, _, _)
sortPortsByNeighborAngle(boxes, edges, side, portIds) ==
    IF portIds = <<>> THEN <<>>
    ELSE InsertPortByAngle(boxes, edges, side,
             sortPortsByNeighborAngle(boxes, edges, side,
                                      SubSeq(portIds, 1, Len(portIds) - 1)),
             portIds[Len(portIds)])

\* distributeAlongSide: port i of n sits at (i+1)/(n+1) of the side.
distributeAlongSide(box, side, i, n) ==
    CASE side = DirTop -> Pt(Left(box) + (box.W * i) \div (n + 1), Top(box))
      [] side = DirBottom -> Pt(Left(box) + (box.W * i) \div (n + 1), Bottom(box))
      [] side = DirLeft -> Pt(Left(box), Top(box) + (box.H * i) \div (n + 1))
      [] side = DirRight -> Pt(Right(box), Top(box) + (box.H * i) \div (n + 1))

\* distributePortsOnSides: the position of port p.
distributedPos(boxes, edges, sides, p) ==
    LET node == portNode(edges, p)
        side == portSide(sides, p)
        onSide == SelectSeq(allPortIds(edges),
                            LAMBDA q : portNode(edges, q) = node /\ portSide(sides, q) = side)
        sorted == sortPortsByNeighborAngle(boxes, edges, side, onSide)
        i == CHOOSE k \in 1..Len(sorted) : sorted[k] = p
    IN distributeAlongSide(boxes[node], side, i, Len(sorted))

\* alignNearlyAlignedPorts for one edge: facing ports of boxes that share a
\* column (row) move to the middle of the overlap when both can reach it.
alignedPair(srcBox, dstBox, srcSide, dstSide, srcPos, dstPos) ==
    LET isVertical == \/ srcSide = DirBottom /\ dstSide = DirTop
                      \/ srcSide = DirTop /\ dstSide = DirBottom
        isHorizontal == \/ srcSide = DirRight /\ dstSide = DirLeft
                        \/ srcSide = DirLeft /\ dstSide = DirRight
        overlapLeft == Max2(Left(srcBox), Left(dstBox))
        overlapRight == Min2(Right(srcBox), Right(dstBox))
        targetX == (overlapLeft + overlapRight) \div 2
        overlapTop == Max2(Top(srcBox), Top(dstBox))
        overlapBottom == Min2(Bottom(srcBox), Bottom(dstBox))
        targetY == (overlapTop + overlapBottom) \div 2
    IN IF /\ isVertical /\ overlapRight > overlapLeft
          /\ targetX >= Left(srcBox) + srcBox.W \div 10
          /\ targetX <= Left(srcBox) + (srcBox.W * 9) \div 10
          /\ targetX >= Left(dstBox) + dstBox.W \div 10
          /\ targetX <= Left(dstBox) + (dstBox.W * 9) \div 10
       THEN <<Pt(targetX, srcPos.y), Pt(targetX, dstPos.y)>>
       ELSE IF /\ isHorizontal /\ overlapBottom > overlapTop
               /\ targetY >= Top(srcBox) + srcBox.H \div 10
               /\ targetY <= Top(srcBox) + (srcBox.H * 9) \div 10
               /\ targetY >= Top(dstBox) + dstBox.H \div 10
               /\ targetY <= Top(dstBox) + (dstBox.H * 9) \div 10
       THEN <<Pt(srcPos.x, targetY), Pt(dstPos.x, targetY)>>
       ELSE <<srcPos, dstPos>>

assignPorts(boxes, edges) ==
    LET sides == edgeSides(boxes, edges)
    IN [i \in 1..Len(edges) |->
          LET pos == alignedPair(boxes[edges[i].Src], boxes[edges[i].Dst],
                         sides[i][1], sides[i][2],
                         distributedPos(boxes, edges, sides, [EdgeIdx |-> i, IsSrc |-> TRUE]),
                         distributedPos(boxes, edges, sides, [EdgeIdx |-> i, IsSrc |-> FALSE]))
          IN [Src |-> Port(sides[i][1], pos[1]), Dst |-> Port(sides[i][2], pos[2])]]

----------------------------------------------------------------------------
(* Channels and representatives (findChannels, pruneChannels,              *)
(* buildRepresentatives) and buildRoutingGraph                              *)

Channel(rect, orientation) == [Rect |-> rect, Orientation |-> orientation]

Segment(start, end, orientation) ==
    [Start |-> start, End |-> end, Orientation |-> orientation]

\* computeBoundingBox: the hull of the boxes, widened by a margin of 40.
computeBoundingBox(boxes) ==
    LET idx == 1..Len(boxes)
        minX == CHOOSE v \in {Left(boxes[k]) : k \in idx} :
                    \A k \in idx : v <= Left(boxes[k])
        minY == CHOOSE v \in {Top(boxes[k]) : k \in idx} :
                    \A k \in idx : v <= Top(boxes[k])
        maxX == CHOOSE v \in {Right(boxes[k]) : k \in idx} :
                    \A k \in idx : v >= Right(boxes[k])
        maxY == CHOOSE v \in {Bottom(boxes[k]) : k \in idx} :
                    \A k \in idx : v >= Bottom(boxes[k])
    IN Rect(minX - Px(40), minY - Px(40),
            (maxX - minX) + 2 * Px(40), (maxY - minY) + 2 * Px(40))

\* sortedUniqueFloats: the values in ascending order, each once.
RECURSIVE sortedUniqueFloats(_)
sortedUniqueFloats(vals) ==
    IF vals = {} THEN <<>>
    ELSE LET least == CHOOSE v \in vals : \A w \in vals : v <= w
         IN <<least>> \o sortedUniqueFloats(vals \ {least})

isVerticalStripFree(x, y1, y2, boxes) ==
    \A k \in 1..Len(boxes) :
        ~(/\ x > Left(boxes[k]) /\ x < Right(boxes[k])
          /\ y2 > Top(boxes[k]) /\ y1 < Bottom(boxes[k]))

isHorizontalStripFree(y, x1, x2, boxes) ==
    \A k \in 1..Len(boxes) :
        ~(/\ y > Top(boxes[k]) /\ y < Bottom(boxes[k])
          /\ x2 > Left(boxes[k]) /\ x1 < Right(boxes[k]))

\* dominates(a, b): a contains b's extent within 0.5 and is wider by more
\* than 0.5.  The caller compares channels of one orientation.
dominates(a, b) ==
    IF a.Orientation = Vertical
    THEN /\ Left(a.Rect) - eps <= Left(b.Rect) /\ Right(a.Rect) + eps >= Right(b.Rect)
         /\ Top(a.Rect) - eps <= Top(b.Rect) /\ Bottom(a.Rect) + eps >= Bottom(b.Rect)
         /\ a.Rect.W > b.Rect.W + eps
    ELSE /\ Top(a.Rect) - eps <= Top(b.Rect) /\ Bottom(a.Rect) + eps >= Bottom(b.Rect)
         /\ Left(a.Rect) - eps <= Left(b.Rect) /\ Right(a.Rect) + eps >= Right(b.Rect)
         /\ a.Rect.H > b.Rect.H + eps

\* The two loops of pruneChannels: i runs over the channels not yet marked,
\* j over all others; dominated is the set of marked indices.
RECURSIVE PruneInner(_, _, _, _)
PruneInner(channels, i, j, dominated) ==
    IF j > Len(channels) THEN dominated
    ELSE IF i = j \/ j \in dominated THEN PruneInner(channels, i, j + 1, dominated)
    ELSE IF channels[i].Orientation # channels[j].Orientation
    THEN PruneInner(channels, i, j + 1, dominated)
    ELSE IF dominates(channels[i], channels[j])
    THEN PruneInner(channels, i, j + 1, dominated \cup {j})
    ELSE PruneInner(channels, i, j + 1, dominated)

RECURSIVE PruneOuter(_, _, _)
PruneOuter(channels, i, dominated) ==
    IF i > Len(channels) THEN dominated
    ELSE IF i \in dominated THEN PruneOuter(channels, i + 1, dominated)
    ELSE PruneOuter(channels, i + 1, PruneInner(channels, i, 1, dominated))

\* "result": the channels that were not marked, in their order.
RECURSIVE KeepFrom(_, _, _)
KeepFrom(channels, k, dominated) ==
    IF k > Len(channels) THEN <<>>
    ELSE (IF k \in dominated THEN <<>> ELSE <<channels[k]>>)
         \o KeepFrom(channels, k + 1, dominated)

pruneChannels(channels) ==
    IF Len(channels) <= 1 THEN channels
    ELSE KeepFrom(channels, 1, PruneOuter(channels, 1, {}))

\* The free vertical strips between consecutive x boundaries.
RECURSIVE VerticalStrips(_, _, _, _)
VerticalStrips(xBounds, i, boxes, bbox) ==
    IF i > Len(xBounds) - 1 THEN <<>>
    ELSE LET x1 == xBounds[i]
             x2 == xBounds[i + 1]
             midX == (x1 + x2) \div 2
         IN (IF x2 - x1 < Px(1) THEN <<>>
             ELSE IF isVerticalStripFree(midX, Top(bbox), Bottom(bbox), boxes)
             THEN <<Channel(Rect(x1, Top(bbox), x2 - x1, bbox.H), Vertical)>>
             ELSE <<>>)
            \o VerticalStrips(xBounds, i + 1, boxes, bbox)

RECURSIVE HorizontalStrips(_, _, _, _)
HorizontalStrips(yBounds, i, boxes, bbox) ==
    IF i > Len(yBounds) - 1 THEN <<>>
    ELSE LET y1 == yBounds[i]
             y2 == yBounds[i + 1]
             midY == (y1 + y2) \div 2
         IN (IF y2 - y1 < Px(1) THEN <<>>
             ELSE IF isHorizontalStripFree(midY, Left(bbox), Right(bbox), boxes)
             THEN <<Channel(Rect(Left(bbox), y1, bbox.W, y2 - y1), Horizontal)>>
             ELSE <<>>)
            \o HorizontalStrips(yBounds, i + 1, boxes, bbox)

findChannels(boxes, bbox) ==
    LET idx == 1..Len(boxes)
        xBounds == sortedUniqueFloats(
            {Left(boxes[k]) : k \in idx} \cup {Right(boxes[k]) : k \in idx}
            \cup {Left(bbox), Right(bbox)})
        yBounds == sortedUniqueFloats(
            {Top(boxes[k]) : k \in idx} \cup {Bottom(boxes[k]) : k \in idx}
            \cup {Top(bbox), Bottom(bbox)})
    IN pruneChannels(VerticalStrips(xBounds, 1, boxes, bbox)
                     \o HorizontalStrips(yBounds, 1, boxes, bbox))

\* The ports in the order of allPorts.
portList(pa) ==
    [k \in 1..(2 * Len(pa)) |->
        IF k <= Len(pa) THEN pa[k].Src ELSE pa[k - Len(pa)].Dst]

\* The loop over allPorts in buildRepresentatives: the coordinate of the
\* port strictly inside the channel that is nearest to its centre line.
RECURSIVE alignedCoord(_, _, _, _, _, _, _)
alignedCoord(coords, k, lo, hi, center, aligned, bestDist) ==
    IF k > Len(coords) THEN aligned
    ELSE IF coords[k] > lo /\ coords[k] < hi /\ Abs(coords[k] - center) < bestDist
    THEN alignedCoord(coords, k + 1, lo, hi, center, coords[k], Abs(coords[k] - center))
    ELSE alignedCoord(coords, k + 1, lo, hi, center, aligned, bestDist)

representative(ch, pa) ==
    LET all == portList(pa)
    IN IF ch.Orientation = Vertical
       THEN LET alignedX == alignedCoord([k \in 1..Len(all) |-> all[k].Pos.x], 1,
                                Left(ch.Rect), Right(ch.Rect), CenterX(ch.Rect),
                                CenterX(ch.Rect), ch.Rect.W \div 2)
            IN Segment(Pt(alignedX, Top(ch.Rect)), Pt(alignedX, Bottom(ch.Rect)), Vertical)
       ELSE LET alignedY == alignedCoord([k \in 1..Len(all) |-> all[k].Pos.y], 1,
                                Top(ch.Rect), Bottom(ch.Rect), CenterY(ch.Rect),
                                CenterY(ch.Rect), ch.Rect.H \div 2)
            IN Segment(Pt(Left(ch.Rect), alignedY), Pt(Right(ch.Rect), alignedY), Horizontal)

\* "covered": a representative of the port's line passes through the port.
covered(segments, p) ==
    \E k \in 1..Len(segments) :
        LET s == segments[k]
        IN \/ /\ s.Orientation = Vertical /\ s.Start.x = p.Pos.x
              /\ p.Pos.y >= s.Start.y /\ p.Pos.y <= s.End.y
           \/ /\ s.Orientation = Horizontal /\ s.Start.y = p.Pos.y
              /\ p.Pos.x >= s.Start.x /\ p.Pos.x <= s.End.x

\* extendVerticalFromPort: <<>> is nil.
RECURSIVE extendVerticalFromPort(_, _, _)
extendVerticalFromPort(p, channels, k) ==
    IF k > Len(channels) THEN <<>>
    ELSE LET ch == channels[k]
         IN IF ch.Orientation # Horizontal THEN extendVerticalFromPort(p, channels, k + 1)
            ELSE IF /\ p.Pos.x >= Left(ch.Rect) /\ p.Pos.x <= Right(ch.Rect)
                    /\ p.Side = DirTop /\ Bottom(ch.Rect) <= p.Pos.y + Px(1)
            THEN <<Segment(Pt(p.Pos.x, CenterY(ch.Rect)), p.Pos, Vertical)>>
            ELSE IF /\ p.Pos.x >= Left(ch.Rect) /\ p.Pos.x <= Right(ch.Rect)
                    /\ p.Side = DirBottom /\ Top(ch.Rect) >= p.Pos.y - Px(1)
            THEN <<Segment(p.Pos, Pt(p.Pos.x, CenterY(ch.Rect)), Vertical)>>
            ELSE extendVerticalFromPort(p, channels, k + 1)

RECURSIVE extendHorizontalFromPort(_, _, _)
extendHorizontalFromPort(p, channels, k) ==
    IF k > Len(channels) THEN <<>>
    ELSE LET ch == channels[k]
         IN IF ch.Orientation # Vertical THEN extendHorizontalFromPort(p, channels, k + 1)
            ELSE IF /\ p.Pos.y >= Top(ch.Rect) /\ p.Pos.y <= Bottom(ch.Rect)
                    /\ p.Side = DirLeft /\ Right(ch.Rect) <= p.Pos.x + Px(1)
            THEN <<Segment(Pt(CenterX(ch.Rect), p.Pos.y), p.Pos, Horizontal)>>
            ELSE IF /\ p.Pos.y >= Top(ch.Rect) /\ p.Pos.y <= Bottom(ch.Rect)
                    /\ p.Side = DirRight /\ Left(ch.Rect) >= p.Pos.x - Px(1)
            THEN <<Segment(p.Pos, Pt(CenterX(ch.Rect), p.Pos.y), Horizontal)>>
            ELSE extendHorizontalFromPort(p, channels, k + 1)

RECURSIVE addPortSegments(_, _, _, _)
addPortSegments(segments, all, channels, k) ==
    IF k > Len(all) THEN segments
    ELSE IF covered(segments, all[k]) THEN addPortSegments(segments, all, channels, k + 1)
    ELSE addPortSegments(
            segments \o (IF all[k].Side \in {DirTop, DirBottom}
                         THEN extendVerticalFromPort(all[k], channels, 1)
                         ELSE extendHorizontalFromPort(all[k], channels, 1)),
            all, channels, k + 1)

buildRepresentatives(channels, pa) ==
    addPortSegments([k \in 1..Len(channels) |-> representative(channels[k], pa)],
                    portList(pa), channels, 1)

\* sortSegmentPoints for one segment: Start before End.
sortSegmentPoints(s) ==
    IF \/ s.Orientation = Horizontal /\ s.Start.x > s.End.x
       \/ s.Orientation = Vertical /\ s.Start.y > s.End.y
    THEN Segment(s.End, s.Start, s.Orientation)
    ELSE s

RECURSIVE deduplicateSegments(_, _, _)
deduplicateSegments(segments, k, result) ==
    IF k > Len(segments) THEN result
    ELSE IF \E j \in 1..Len(result) : result[j] = segments[k]
    THEN deduplicateSegments(segments, k + 1, result)
    ELSE deduplicateSegments(segments, k + 1, Append(result, segments[k]))

\* math.Round(v*100)/100 of addNode.  A coordinate is v/60; the model's
\* coordinates are multiples of 0.05 (3 units), which the snap keeps.
snap(v) ==
    LET hundredths == IF v >= 0 THEN (v * 10 + 3) \div 6 ELSE -((-v * 10 + 3) \div 6)
    IN (hundredths * 3) \div 5

\* addNode for a list of points, in order: a point becomes a node unless an
\* earlier point has the same snapped position.
addNodes(pts) ==
    LET snapped == [k \in 1..Len(pts) |-> Pt(snap(pts[k].x), snap(pts[k].y))]
        first == SelectSeq([k \in 1..Len(pts) |-> k],
                     LAMBDA k : \A j \in 1..(k - 1) : snapped[j] # snapped[k])
    IN [n \in 1..Len(first) |-> snapped[first[n]]]

\* The crossing of a horizontal with a vertical representative, if any.
crossing(h, v) ==
    IF /\ v.Start.x >= h.Start.x - eps /\ v.Start.x <= h.End.x + eps
       /\ h.Start.y >= v.Start.y - eps /\ h.Start.y <= v.End.y + eps
    THEN <<Pt(v.Start.x, h.Start.y)>> ELSE <<>>

\* The crossings in the order of the two loops: pair n is horizontal
\* (n - 1) \div Len(vSegs) + 1 with vertical (n - 1) % Len(vSegs) + 1.
crossings(hSegs, vSegs) ==
    LET at(n) == crossing(hSegs[((n - 1) \div Len(vSegs)) + 1],
                          vSegs[((n - 1) % Len(vSegs)) + 1])
        found == SelectSeq([n \in 1..(Len(hSegs) * Len(vSegs)) |-> n],
                     LAMBDA n : at(n) # <<>>)
    IN [m \in 1..Len(found) |-> at(found[m])[1]]

edgePassesThroughBox(a, b, boxes) ==
    \E k \in 1..Len(boxes) :
        LET box == boxes[k]
        IN IF Abs(a.x - b.x) < eps
           THEN /\ (a.x + b.x) \div 2 > Left(box) + eps
                /\ (a.x + b.x) \div 2 < Right(box) - eps
                /\ Max2(a.y, b.y) > Top(box) + eps
                /\ Min2(a.y, b.y) < Bottom(box) - eps
           ELSE /\ Abs(a.y - b.y) < eps
                /\ (a.y + b.y) \div 2 > Top(box) + eps
                /\ (a.y + b.y) \div 2 < Bottom(box) - eps
                /\ Max2(a.x, b.x) > Left(box) + eps
                /\ Min2(a.x, b.x) < Right(box) - eps

\* The nodes on a segment (1-based positions in nodes), in node order.
onSegment(nodes, seg) ==
    SelectSeq([k \in 1..Len(nodes) |-> k],
        LAMBDA k :
            IF seg.Orientation = Horizontal
            THEN /\ Abs(nodes[k].y - seg.Start.y) < eps
                 /\ nodes[k].x >= seg.Start.x - eps /\ nodes[k].x <= seg.End.x + eps
            ELSE /\ Abs(nodes[k].x - seg.Start.x) < eps
                 /\ nodes[k].y >= seg.Start.y - eps /\ nodes[k].y <= seg.End.y + eps)

\* sort.Slice by the position along the segment (insertion order kept for
\* equal positions).
RECURSIVE InsertAlong(_, _, _, _)
InsertAlong(nodes, o, sorted, k) ==
    LET along(n) == IF o = Horizontal THEN nodes[n].x ELSE nodes[n].y
    IN IF sorted = <<>> THEN <<k>>
       ELSE IF along(k) < along(sorted[Len(sorted)])
       THEN InsertAlong(nodes, o, SubSeq(sorted, 1, Len(sorted) - 1), k)
            \o <<sorted[Len(sorted)]>>
       ELSE Append(sorted, k)

RECURSIVE SortAlong(_, _, _)
SortAlong(nodes, o, onSeg) ==
    IF onSeg = <<>> THEN <<>>
    ELSE InsertAlong(nodes, o, SortAlong(nodes, o, SubSeq(onSeg, 1, Len(onSeg) - 1)),
                     onSeg[Len(onSeg)])

\* "Connect consecutive nodes": the edges one segment adds, in the order
\* they are appended (a to b, then b to a); node ids are positions minus one.
RECURSIVE connectConsecutive(_, _, _, _, _)
connectConsecutive(nodes, boxes, o, onSeg, k) ==
    IF k > Len(onSeg) - 1 THEN <<>>
    ELSE LET a == onSeg[k]
             b == onSeg[k + 1]
             w == Hypot(nodes[b].x - nodes[a].x, nodes[b].y - nodes[a].y)
         IN (IF w < eps \/ edgePassesThroughBox(nodes[a], nodes[b], boxes)
             THEN <<>>
             ELSE <<RoutingGraphEdge(a - 1, b - 1, w, o),
                    RoutingGraphEdge(b - 1, a - 1, w, o)>>)
            \o connectConsecutive(nodes, boxes, o, onSeg, k + 1)

\* The edges of all segments, in the order they are appended.
RECURSIVE connectAlongSegments(_, _, _, _)
connectAlongSegments(nodes, boxes, segments, k) ==
    IF k > Len(segments) THEN <<>>
    ELSE connectConsecutive(nodes, boxes, segments[k].Orientation,
            SortAlong(nodes, segments[k].Orientation, onSegment(nodes, segments[k])), 1)
         \o connectAlongSegments(nodes, boxes, segments, k + 1)

\* The representatives with their end points in order, without duplicates.
graphSegments(channels, pa) ==
    LET reps == buildRepresentatives(channels, pa)
    IN deduplicateSegments([k \in 1..Len(reps) |-> sortSegmentPoints(reps[k])], 1, <<>>)

\* The nodes: the ports, then the crossings, then the segment end points.
graphNodes(segments, pa) ==
    LET hSegs == SelectSeq(segments, LAMBDA s : s.Orientation = Horizontal)
        vSegs == SelectSeq(segments, LAMBDA s : s.Orientation = Vertical)
        all == portList(pa)
        ends == [k \in 1..(2 * Len(segments)) |->
                    IF k % 2 = 1 THEN segments[(k + 1) \div 2].Start
                    ELSE segments[k \div 2].End]
    IN addNodes([k \in 1..Len(all) |-> all[k].Pos] \o crossings(hSegs, vSegs) \o ends)

\* The graph of the nodes, connected along the segments: Adj[id] holds the
\* edges that leave id, in the order they were appended.
graphOf(nodes, segments, boxes) ==
    [Nodes |-> [id \in 0..(Len(nodes) - 1) |-> nodes[id + 1]],
     Adj |-> LET edges == connectAlongSegments(nodes, boxes, segments, 1)
             IN [id \in 0..(Len(nodes) - 1) |->
                    SelectSeq(edges, LAMBDA e : e.From = id)]]

----------------------------------------------------------------------------
(* RouteEdges (d2gridrouter/router.go): ports, channels and routing graph   *)
(* are computed from the boxes, routeAllEdges runs, the routes are nudged    *)
(* and simplified.                                                           *)

\* nudgeRoutes of d2gridrouter for one bundle: the edges of the bundle, in
\* index order, are spread evenly over the channel.
nudgeEvenly(rts, bundle, channels) ==
    LET bounds == findChannelBounds(bundle, channels)
        channelWidth == bounds[2] - bounds[1]
        uniqueEdges == uniqueEdgesOf(bundle, [hKeys |-> <<>>, vKeys |-> <<>>])
    IN IF Len(bundle.segments) <= 1 \/ channelWidth < Px(4) \/ Len(uniqueEdges) <= 1
       THEN rts
       ELSE applyNudgeOffsets(rts, bundle,
                evenDistribution(uniqueEdges, bundle.fixedCoord, bounds[1], channelWidth))

\* The loop over the bundles.  Bundles share no segment and an offset is
\* added to a coordinate, so the order of the bundles does not show.
RECURSIVE NudgeBundles(_, _, _)
NudgeBundles(rts, bundles, channels) ==
    IF bundles = {} THEN rts
    ELSE LET bundle == CHOOSE b \in bundles : TRUE
         IN NudgeBundles(nudgeEvenly(rts, bundle, channels), bundles \ {bundle}, channels)

gridNudgeRoutes(rts, channels) ==
    IF Len(rts) <= 1 THEN rts
    ELSE NudgeBundles(rts, groupIntoBundles(AllSegsFrom(rts, 1)), channels)

MaxRouteEdges == 2

\* Box 1 and a second box of the same size: touching it on the right, apart
\* in the same row, overlapping it, diagonally below, straight below.
RouteEdgesBoxes ==
    {<<Rect(0, 0, Px(120), Px(60)), Rect(at[1], at[2], Px(120), Px(60))>> :
        at \in {<<Px(120), 0>>, <<Px(200), 0>>, <<Px(60), Px(30)>>,
                <<Px(200), Px(140)>>, <<0, Px(140)>>}}

\* An edge between the boxes, either way, or a self-loop of box 1.
RouteEdgesEdges == {[Src |-> 1, Dst |-> 2], [Src |-> 2, Dst |-> 1], [Src |-> 1, Dst |-> 1]}

RouteEdgesInit ==
    /\ pc = "routeEdges"
    /\ \E boxes \in RouteEdgesBoxes, n \in 0..MaxRouteEdges :
          \E edges \in [1..n -> RouteEdgesEdges] :
              g = [boxes |-> boxes, edges |-> edges]
    /\ info = <<>>
    /\ BfsIdle
    /\ SimplifyIdle
    /\ DijkstraIdle
    /\ CorridorIdle
    /\ RouteIdle
    /\ NudgeIdle
    /\ CallIdle

\* RouteEdges up to the call of routeAllEdges.
RouteEdgesPrepare ==
    /\ pc = "routeEdges"
    /\ IF Len(g.edges) = 0
       THEN pc' = "done" /\ UNCHANGED <<ports, rg>>
       ELSE /\ ports' = assignPorts(g.boxes, g.edges)
            /\ \E channels \in {findChannels(g.boxes, computeBoundingBox(g.boxes))} :
               \E segments \in {graphSegments(channels, ports')} :
               \E nodes \in {graphNodes(segments, ports')} :
                  rg' = graphOf(nodes, segments, g.boxes)
            /\ pc' = "routeAll"
    /\ UNCHANGED <<nudgeVars, callVars, simplifyVars, placeVars, routeVars,
                   djSrc, djDst, dj, djPath, order, oi, routedSegments, routes>>

\* RouteEdges after routeAllEdges: nudge, then write every edge's route.
\* A route of fewer than 2 points is replaced by the line between the two
\* centres, which TraceToShape clips to the shapes.
RouteEdgesApply ==
    /\ pc = "returned"
    /\ g # <<>>
    /\ LET nudged == gridNudgeRoutes(routes,
                        findChannels(g.boxes, computeBoundingBox(g.boxes)))
       IN edgeRoute' =
            [i \in 1..Len(routes) |->
                IF Len(nudged[i]) >= 2 THEN simplifyRoute(nudged[i])
                ELSE <<Pt(CenterX(g.boxes[g.edges[i].Src]), CenterY(g.boxes[g.edges[i].Src])),
                       Pt(CenterX(g.boxes[g.edges[i].Dst]), CenterY(g.boxes[g.edges[i].Dst]))>>]
    /\ pc' = "done"
    /\ UNCHANGED <<nudgeVars, callVars, simplifyVars, placeVars, dijkstraVars,
                   corridorVars, edgePorts, routeIdx>>

\* dijkstraRoute inside routeAllEdges, one iteration of its loop at a time
\* (srcNodeID # dstNodeID here): seed the queue,
RouteDijkstraSeed ==
    /\ pc = "dijkstraRunning"
    /\ dj = <<>>
    /\ dj' = DijkstraStart(djSrc)
    /\ UNCHANGED <<nudgeVars, callVars, pc, rg, djSrc, djDst, djPath, simplifyVars,
                   corridorVars, placeVars, routeVars>>

\* pop, mark visited, return at the destination or explore the neighbours,
RouteDijkstraPop ==
    /\ pc = "dijkstraRunning"
    /\ dj # <<>>
    /\ ~dj.done
    /\ \E cur \in PopCandidates(dj.pq) :
          dj' = DijkstraLoopBody(rg.Adj, dj, cur, djSrc, djDst)
    /\ UNCHANGED <<nudgeVars, callVars, pc, rg, djSrc, djDst, djPath, simplifyVars,
                   corridorVars, placeVars, routeVars>>

\* and return the path, or nil when the queue ran empty; then
\* removeCrossingPenalties, the route is written and its segments recorded.
RouteTakePath ==
    /\ pc = "dijkstraRunning"
    /\ dj # <<>>
    /\ dj.done \/ dj.pq = {}
    /\ LET path == IF dj.done THEN dj.path ELSE <<>>
           i == order[oi]
       IN /\ djPath' = path
          /\ IF Len(path) = 0
             THEN /\ routes' = [routes EXCEPT ![i] = DirectRoute(ports, i)]
                  /\ UNCHANGED routedSegments
             ELSE /\ routes' = [routes EXCEPT ![i] = PathRoute(rg, ports, i, path)]
                  /\ routedSegments' = routedSegments \o PathSegments(path)
    /\ rg' = removeCrossingPenalties(rg, routedSegments)
    /\ dj' = <<>>
    /\ oi' = oi + 1
    /\ pc' = "nextEdge"
    /\ UNCHANGED <<nudgeVars, callVars, djSrc, djDst, ports, order, simplifyVars,
                   placeVars, routeVars>>

RouteEdgesNext ==
    \/ RouteEdgesPrepare
    \/ RouteOrder
    \/ RouteDirect
    \/ RouteAddPenalties
    \/ RouteDijkstraSeed
    \/ RouteDijkstraPop
    \/ RouteTakePath
    \/ RouteReturn
    \/ RouteEdgesApply

SpecRouteEdges == RouteEdgesInit /\ [][RouteEdgesNext]_vars

(* C16: after RouteEdges returns, every edge passed in has a route of at    *)
(* least 2 points, for any pre-positioned boxes, touching or overlapping    *)
(* boxes and self-loops included: the final simplifyRoute of a route of 2   *)
(* or more points leaves at least 2 points.                                 *)
C16_RouteHasTwoPoints ==
    (pc = "done" /\ Len(g.edges) > 0) =>
        \A i \in 1..Len(g.edges) : Len(edgeRoute[i]) >= 2

\* ---------------------------------------------------------------------
\* segmentIntersectsBox as a function of its arguments (gridroute.go 567-620)

\* Coordinates of the segment ends, in px.
IntersectXs == {0, 10, 20, 30, 40}
IntersectYs == {0, 10, 15, 20, 30}

IntersectPoints == {Pt(Px(x), Px(y)) : x \in IntersectXs, y \in IntersectYs}

\* box = [left, top, right, bottom]
IntersectBoxes ==
    {[left |-> Px(10), top |-> Px(10), right |-> Px(30), bottom |-> Px(20)],
     nodeBox([TopLeft |-> Pt(Px(19), Px(9)), Width |-> Px(2), Height |-> Px(12)],
             nodeMargin)}

IntersectInit ==
    /\ pc = "segmentIntersectsBox"
    /\ \E p1 \in IntersectPoints, box \in IntersectBoxes :
          \E p2 \in IntersectPoints \ {p1} :
              callArgs = [fn |-> "segmentIntersectsBox",
                          p1 |-> p1, p2 |-> p2, box |-> box]
    /\ callResult = <<>>
    /\ SimplifyIdle /\ DijkstraIdle /\ CorridorIdle /\ PlaceIdle
    /\ RouteIdle /\ NudgeIdle

\* return segmentIntersectsBox(p1, p2, box)
SegmentIntersectsBoxCall ==
    /\ pc = "segmentIntersectsBox"
    /\ callResult' = <<segmentIntersectsBox(callArgs.p1, callArgs.p2, callArgs.box)>>
    /\ pc' = "done"
    /\ UNCHANGED <<nudgeVars, callArgs, simplifyVars, dijkstraVars, corridorVars,
                   placeVars, routeVars>>

IntersectNext == SegmentIntersectsBoxCall

SpecIntersect == IntersectInit /\ [][IntersectNext]_vars

\* The parameters t of the points p1 + t (p2 - p1) whose coordinate c lies
\* strictly between lo and hi are those with lower < t < upper; a segment
\* that keeps c constant has all of them or none.
Lower(c, d, lo, hi) == IF d > 0 THEN Frac(lo - c, d) ELSE Frac(hi - c, d)

Upper(c, d, lo, hi) == IF d > 0 THEN Frac(hi - c, d) ELSE Frac(lo - c, d)

\* Some point of the open segment p1-p2 lies in the interior of the box.
EntersInterior(p1, p2, box) ==
    LET dx == p2.x - p1.x
        dy == p2.y - p1.y
        lowers == {Frac(0, 1)}
                    \cup (IF dx # 0 THEN {Lower(p1.x, dx, box.left, box.right)} ELSE {})
                    \cup (IF dy # 0 THEN {Lower(p1.y, dy, box.top, box.bottom)} ELSE {})
        uppers == {Frac(1, 1)}
                    \cup (IF dx # 0 THEN {Upper(p1.x, dx, box.left, box.right)} ELSE {})
                    \cup (IF dy # 0 THEN {Upper(p1.y, dy, box.top, box.bottom)} ELSE {})
    IN  /\ dx = 0 => (box.left < p1.x /\ p1.x < box.right)
        /\ dy = 0 => (box.top < p1.y /\ p1.y < box.bottom)
        /\ \A lo \in lowers, hi \in uppers : FracLess(lo, hi)

\* C18: segmentIntersectsBox(p1, p2, box) returns true exactly when the open
\* segment p1-p2 enters the interior of the box: a segment that only runs
\* along an edge of the box or only touches its boundary gives false, one
\* that passes through the interior gives true, whether it is horizontal,
\* vertical or diagonal.
C18_IntersectsIffEntersInterior ==
    (pc = "done" /\ callArgs # <<>> /\ callArgs.fn = "segmentIntersectsBox") =>
        callResult[1] = EntersInterior(callArgs.p1, callArgs.p2, callArgs.box)

\* ---------------------------------------------------------------------
\* selectFaces as a function of its arguments (gridroute.go 260-302)

\* Rows and columns of the cells run over 0..MaxCell.
MaxCell == 3

Cells == {[col |-> c, row |-> r] : c \in 0..MaxCell, r \in 0..MaxCell}

SelectFacesInit ==
    /\ pc = "selectFaces"
    /\ \E srcCell \in Cells, dstCell \in Cells :
          callArgs = [fn |-> "selectFaces", srcCell |-> srcCell, dstCell |-> dstCell]
    /\ callResult = <<>>
    /\ SimplifyIdle /\ DijkstraIdle /\ CorridorIdle /\ PlaceIdle
    /\ RouteIdle /\ NudgeIdle

\* return selectFaces(srcCell, dstCell)
SelectFacesCall ==
    /\ pc = "selectFaces"
    /\ callResult' = <<selectFaces(callArgs.srcCell, callArgs.dstCell)>>
    /\ pc' = "done"
    /\ UNCHANGED <<nudgeVars, callArgs, simplifyVars, dijkstraVars, corridorVars,
                   placeVars, routeVars>>

SelectFacesNext == SelectFacesCall

SpecSelectFaces == SelectFacesInit /\ [][SelectFacesNext]_vars

SelectFacesReturned == pc = "done" /\ callArgs # <<>> /\ callArgs.fn = "selectFaces"

\* C19: for distinct cells selectFaces gives, in the same row, source Right
\* if dc > 0 and Left otherwise; in the same column, source Bottom if dr > 0
\* and Top otherwise; with |dc| > |dr| the horizontal faces by the sign of
\* dc; with |dr| >= |dc|, the equal diagonal included, the vertical faces by
\* the sign of dr; the destination face is always the opposite of the source
\* face. For the same cell it gives Right and Left.
C19_SelectFaces ==
    SelectFacesReturned =>
        LET dc == callArgs.dstCell.col - callArgs.srcCell.col
            dr == callArgs.dstCell.row - callArgs.srcCell.row
            adc == IF dc < 0 THEN -dc ELSE dc
            adr == IF dr < 0 THEN -dr ELSE dr
            sf == callResult[1].srcFace
            df == callResult[1].dstFace
        IN  /\ (dc = 0 /\ dr = 0) => (sf = faceRight /\ df = faceLeft)
            /\ (dr = 0 /\ dc > 0) => sf = faceRight
            /\ (dr = 0 /\ dc < 0) => sf = faceLeft
            /\ (dc = 0 /\ dr > 0) => sf = faceBottom
            /\ (dc = 0 /\ dr < 0) => sf = faceTop
            /\ (dr # 0 /\ adc > adr /\ dc > 0) => sf = faceRight
            /\ (dr # 0 /\ adc > adr /\ dc < 0) => sf = faceLeft
            /\ (dc # 0 /\ adr >= adc /\ dr > 0) => sf = faceBottom
            /\ (dc # 0 /\ adr >= adc /\ dr < 0) => sf = faceTop
            /\ (sf = faceRight) => df = faceLeft
            /\ (sf = faceLeft) => df = faceRight
            /\ (sf = faceTop) => df = faceBottom
            /\ (sf = faceBottom) => df = faceTop

\* An equal diagonal down and to the left has been given the faces Bottom
\* and Top.
C19_Witness ==
    /\ SelectFacesReturned
    /\ callArgs.dstCell.col - callArgs.srcCell.col = -2
    /\ callArgs.dstCell.row - callArgs.srcCell.row = 2
    /\ callResult[1] = edgeFaces(faceBottom, faceTop)

\* ---------------------------------------------------------------------
\* pruneChannels as a function of its argument (part_001 121-176)

\* Length of the channel list.
MaxChannels == 3

\* A vertical channel over the full height, and a horizontal one over the
\* full width, of a 300 x 300 bounding box.
VStrip(x, w) == Channel(Rect(x, 0, w, Px(300)), Vertical)
HStrip(y, h) == Channel(Rect(0, y, Px(300), h), Horizontal)

PruneChannelSet ==
    {VStrip(Px(100), Px(50)), VStrip(Px(110), Px(20)), VStrip(Px(200), Px(30)),
     VStrip(Px(1), Px(12)), VStrip(Px(1) \div 2, Px(11)), VStrip(0, Px(10)),
     HStrip(Px(100), Px(50)), HStrip(Px(110), Px(20))}

\* Lists of distinct channels.
PruneChannelLists ==
    {cs \in UNION {[1..n -> PruneChannelSet] : n \in 0..MaxChannels} :
        \A i \in DOMAIN cs, j \in DOMAIN cs : i # j => cs[i] # cs[j]}

PruneInit ==
    /\ pc = "pruneChannels"
    /\ \E channels \in PruneChannelLists :
          callArgs = [fn |-> "pruneChannels", channels |-> channels]
    /\ callResult = <<>>
    /\ SimplifyIdle /\ DijkstraIdle /\ CorridorIdle /\ PlaceIdle
    /\ RouteIdle /\ NudgeIdle

\* return pruneChannels(channels)
PruneChannelsCall ==
    /\ pc = "pruneChannels"
    /\ callResult' = <<pruneChannels(callArgs.channels)>>
    /\ pc' = "done"
    /\ UNCHANGED <<nudgeVars, callArgs, simplifyVars, dijkstraVars, corridorVars,
                   placeVars, routeVars>>

PruneNext == PruneChannelsCall

SpecPrune == PruneInit /\ [][PruneNext]_vars

PruneReturned == pc = "done" /\ callArgs # <<>> /\ callArgs.fn = "pruneChannels"

\* Channel k of the list is dominated by another channel of the list that
\* has its orientation.
Dominated(channels, k) ==
    \E j \in DOMAIN channels :
        /\ j # k
        /\ channels[j].Orientation = channels[k].Orientation
        /\ dominates(channels[j], channels[k])

Survives(channels, k, result) == \E r \in DOMAIN result : result[r] = channels[k]

\* C20: pruneChannels drops the dominated channels and only those: a channel
\* of the input survives exactly when no other input channel of its
\* orientation dominates it (contains its extent within 0.5 and is wider by
\* more than 0.5), whatever the order of the list; channels of different
\* orientation never prune each other and channels that do not contain
\* each other both survive.
C20_PruneDropsExactlyDominated ==
    PruneReturned =>
        \A k \in DOMAIN callArgs.channels :
            Survives(callArgs.channels, k, callResult[1])
                <=> ~Dominated(callArgs.channels, k)

\* ---------------------------------------------------------------------
\* edgeRoutingOrder as a function of the port assignment (router.go 422-471)

\* Length of the short port lists.
MaxOrderEdges == 3

\* Port pairs of a direct vertical, a direct horizontal and a cross-grid
\* edge, at Manhattan distances 100, 100 and 200.
OrderPortSet ==
    {[Src |-> Port(sp[1], Pt(0, 0)), Dst |-> Port(sp[2], d)] :
        sp \in {<<DirBottom, DirTop>>, <<DirRight, DirLeft>>, <<DirRight, DirTop>>},
        d \in {Pt(0, Px(100)), Pt(Px(60), Px(40)), Pt(Px(200), 0)}}

\* The distances, in tens of pixels, of a list of 13 cross-grid edges; the
\* edges 6 and 12 are equally long.
LongOrderDists == <<11, 4, 8, 5, 1, 12, 9, 10, 2, 3, 7, 12, 6>>

LongOrderPorts(side) ==
    [i \in DOMAIN LongOrderDists |->
        [Src |-> Port(DirRight, Pt(0, 0)),
         Dst |-> Port(side, Pt(Px(10 * LongOrderDists[i]), 0))]]

OrderPortLists ==
    UNION {[1..n -> OrderPortSet] : n \in 0..MaxOrderEdges}
        \cup {LongOrderPorts(DirTop), LongOrderPorts(DirLeft)}

\* Neither is less than the other: sort.Slice may leave them in any order.
tiedPriority(a, b) == ~lessPriority(a, b) /\ ~lessPriority(b, a)

\* The orders of a sorted list that differ from it only inside the runs
\* of elements that compare equal.
RECURSIVE TieOrders(_, _)
TieOrders(sorted, prefix) ==
    IF Len(prefix) = Len(sorted) THEN {[i \in DOMAIN prefix |-> sorted[prefix[i]]]}
    ELSE UNION {TieOrders(sorted, Append(prefix, k)) :
                    k \in {k \in DOMAIN sorted :
                              /\ \A i \in DOMAIN prefix : prefix[i] # k
                              /\ tiedPriority(sorted[k], sorted[Len(prefix) + 1])}}

\* sort.Slice is not a stable sort. Up to 12 elements it sorts by insertion
\* (edgeRoutingOrder above); beyond that it runs a quicksort that swaps
\* elements across the slice, and the order of elements that compare equal
\* is not fixed by the less function.
edgeRoutingOrders(pa) ==
    IF Len(pa) <= 12 THEN {edgeRoutingOrder(pa)}
    ELSE {[i \in DOMAIN s |-> s[i].idx] :
             s \in TieOrders(SortPriorities(pa, 1, <<>>), <<>>)}

OrderInit ==
    /\ pc = "edgeRoutingOrder"
    /\ \E pa \in OrderPortLists : callArgs = [fn |-> "edgeRoutingOrder", ports |-> pa]
    /\ callResult = <<>>
    /\ SimplifyIdle /\ DijkstraIdle /\ CorridorIdle /\ PlaceIdle
    /\ RouteIdle /\ NudgeIdle

\* return edgeRoutingOrder(ports, edges)
EdgeRoutingOrderCall ==
    /\ pc = "edgeRoutingOrder"
    /\ \E o \in edgeRoutingOrders(callArgs.ports) : callResult' = <<o>>
    /\ pc' = "done"
    /\ UNCHANGED <<nudgeVars, callArgs, simplifyVars, dijkstraVars, corridorVars,
                   placeVars, routeVars>>

OrderNext == EdgeRoutingOrderCall

SpecOrder == OrderInit /\ [][OrderNext]_vars

OrderReturned == pc = "done" /\ callArgs # <<>> /\ callArgs.fn = "edgeRoutingOrder"

\* C21: edgeRoutingOrder returns a permutation of the edge indices in which
\* every edge with a direct face pair precedes every other edge, edges of
\* one class appear in non-increasing Manhattan port distance, and edges
\* equal in class and distance appear in increasing input index.
C21_RoutingOrder ==
    OrderReturned =>
        LET pa == callArgs.ports
            o == callResult[1]
        IN  /\ Len(o) = Len(pa)
            /\ \A i \in DOMAIN pa : \E a \in DOMAIN o : o[a] = i
            /\ \A a \in DOMAIN o, b \in DOMAIN o :
                  a < b =>
                     LET x == edgePriority(pa, o[a])
                         y == edgePriority(pa, o[b])
                     IN  /\ x.priority <= y.priority
                         /\ x.priority = y.priority => x.dist >= y.dist
                         /\ (x.priority = y.priority /\ x.dist = y.dist) => o[a] < o[b]

\* ---------------------------------------------------------------------
\* The engine options and nudging (part_000 7-19, part_002 49-104,
\* nudging.go 52-146)

\* DefaultOpts of the engine.
DefaultOpts == [CrossingPenalty |-> 500, EdgeSpacing |-> 10]

\* The options handed to HydrateOpts: none (nil), or a crossing penalty
\* and an edge spacing in pixels.
GivenOpts ==
    {<<>>} \cup {[CrossingPenalty |-> 500, EdgeSpacing |-> s] : s \in {5, 10, 20}}

\* optsCopy of wueorthoPlugin.Layout: the hydrated options, DefaultOpts
\* when none were given.
optsCopy(given) == IF given = <<>> THEN DefaultOpts ELSE given

\* nudgeRoutes and constraintNudge have no options parameter: the options
\* of the engine stay where the plugin keeps them.
SpacingInit ==
    /\ pc = "nudge"
    /\ \E rts \in NudgeRouteLists, chs \in NudgeChannelLists :
          /\ nIn = [routes |-> rts, channels |-> chs,
                    ordering |-> [hKeys |-> <<>>, vKeys |-> <<>>]]
          /\ nRoutes = rts
    /\ nBundles = {}
    /\ nApplied = {}
    /\ \E given \in GivenOpts :
          callArgs = [fn |-> "HydrateOpts", opts |-> optsCopy(given)]
    /\ callResult = <<>>
    /\ SimplifyIdle /\ DijkstraIdle /\ CorridorIdle /\ PlaceIdle /\ RouteIdle

SpecSpacing == SpacingInit /\ [][NudgeNext]_vars

\* C22: the configured EdgeSpacing s is the minimum spacing nudging
\* enforces: in a bundle of n >= 2 edges whose channel is at least n * s
\* wide, consecutive nudged positions are at least s apart (s is 10 when
\* no option was given).
C22_EdgeSpacingOption ==
    (callArgs # <<>> /\ callArgs.fn = "HydrateOpts") =>
        \A b \in nApplied :
            LET n == Len(b.uniqueEdges)
                s == Px(callArgs.opts.EdgeSpacing)
            IN  (n >= 2 /\ ~b.skipped /\ b.chMax - b.chMin >= n * s) =>
                    \A i \in 1..(n - 1) : AbsPos(b, i + 1) - AbsPos(b, i) >= s

\* ---------------------------------------------------------------------
\* assignPorts as a function of the boxes and the edges (portassign.go
\* 22-83, 255-312)

\* Length of the edge list.
MaxAssignEdges == 2

\* Box 1 and a second box far below it or far to its right, shifted
\* sideways so that the two overlap fully, partly, in a narrow strip, in a
\* single line or not at all.
AssignBoxes ==
    {<<Rect(0, 0, Px(100), Px(60)), Rect(Px(dx), Px(400), Px(w), Px(60))>> :
        dx \in {-85, -60, 0, 60, 85, 100, 120}, w \in {100, 40}}
    \cup
    {<<Rect(0, 0, Px(100), Px(60)), Rect(Px(400), Px(dy), Px(w), Px(60))>> :
        dy \in {-50, -35, 0, 35, 50}, w \in {100, 40}}

AssignEdges == {[Src |-> 1, Dst |-> 2], [Src |-> 2, Dst |-> 1]}

AssignInit ==
    /\ pc = "assignPorts"
    /\ \E boxes \in AssignBoxes, n \in 1..MaxAssignEdges :
          \E edges \in [1..n -> AssignEdges] :
              callArgs = [fn |-> "assignPorts", boxes |-> boxes, edges |-> edges]
    /\ callResult = <<>>
    /\ SimplifyIdle /\ DijkstraIdle /\ CorridorIdle /\ PlaceIdle
    /\ RouteIdle /\ NudgeIdle

\* return assignPorts(boxes, edges, nodeIndex)
AssignPortsCall ==
    /\ pc = "assignPorts"
    /\ callResult' = <<assignPorts(callArgs.boxes, callArgs.edges)>>
    /\ pc' = "done"
    /\ UNCHANGED <<nudgeVars, callArgs, simplifyVars, dijkstraVars, corridorVars,
                   placeVars, routeVars>>

AssignNext == AssignPortsCall

SpecAssign == AssignInit /\ [][AssignNext]_vars

AssignReturned == pc = "done" /\ callArgs # <<>> /\ callArgs.fn = "assignPorts"

Clamp(v, lo, hi) == IF v < lo THEN lo ELSE IF v > hi THEN hi ELSE v

\* The value v clamped to the inner 10%-90% of the extents [a1, a1 + l1]
\* and [a2, a2 + l2].
ClampInner(v, a1, l1, a2, l2) ==
    Clamp(v, Max2(a1 + l1 \div 10, a2 + l2 \div 10),
             Min2(a1 + (l1 * 9) \div 10, a2 + (l2 * 9) \div 10))

\* C23: after assignPorts, an edge with the faces Bottom/Top or Top/Bottom
\* whose boxes overlap horizontally has both ports at the same x, the
\* midpoint of the overlap clamped to the inner 10%-90% of each box; an
\* edge with the faces Left/Right or Right/Left whose boxes overlap
\* vertically has both ports at the same y, likewise.
C23_CorridorPortsAligned ==
    AssignReturned =>
        \A i \in DOMAIN callArgs.edges :
            LET srcBox == callArgs.boxes[callArgs.edges[i].Src]
                dstBox == callArgs.boxes[callArgs.edges[i].Dst]
                src == callResult[1][i].Src
                dst == callResult[1][i].Dst
                overlapLeft == Max2(Left(srcBox), Left(dstBox))
                overlapRight == Min2(Right(srcBox), Right(dstBox))
                overlapTop == Max2(Top(srcBox), Top(dstBox))
                overlapBottom == Min2(Bottom(srcBox), Bottom(dstBox))
            IN  /\ ( /\ {src.Side, dst.Side} = {DirTop, DirBottom}
                     /\ overlapRight > overlapLeft )
                   => /\ src.Pos.x = dst.Pos.x
                      /\ src.Pos.x = ClampInner((overlapLeft + overlapRight) \div 2,
                                         Left(srcBox), srcBox.W, Left(dstBox), dstBox.W)
                /\ ( /\ {src.Side, dst.Side} = {DirLeft, DirRight}
                     /\ overlapBottom > overlapTop )
                   => /\ src.Pos.y = dst.Pos.y
                      /\ src.Pos.y = ClampInner((overlapTop + overlapBottom) \div 2,
                                         Top(srcBox), srcBox.H, Top(dstBox), dstBox.H)

\* ---------------------------------------------------------------------
\* findBestCell in the BFS of gridPlacement (routinggraph.go 396-424,
\* 560-622)

\* Number of leaves around the hub.
RingLeaves == 4

\* A hub (node 0) joined to each of RingLeaves leaves by one edge, from the
\* hub or towards it, with or without one further node that has no edge.
RingGraphs ==
    {[Objects |-> ObjectsOf(RingLeaves + 1 + extra, <<SmallObject, SmallObject>>),
      Edges |-> [k \in 1..RingLeaves |->
                    IF k \in forward THEN [Src |-> 0, Dst |-> k]
                    ELSE [Src |-> k, Dst |-> 0]],
      Direction |-> dir] :
        forward \in SUBSET (1..RingLeaves), extra \in {0, 1}, dir \in Directions}

RingInit ==
    /\ pc = "place"
    /\ g \in RingGraphs
    /\ BfsIdle
    /\ info = <<>>
    /\ SimplifyIdle /\ DijkstraIdle /\ CorridorIdle /\ RouteIdle
    /\ NudgeIdle /\ CallIdle

SpecRing == RingInit /\ [][PlaceNext]_vars

\* The four cells at unit offset from a cell.
UnitCells(c) ==
    {gridCell(c.row + d[1], c.col + d[2]) :
        d \in {<<0, 1>>, <<1, 0>>, <<0, -1>>, <<-1, 0>>}}

\* C24: when the BFS places a neighbour and at least one of the four
\* cells at unit offset from the parent's cell is free, findBestCell
\* returns one of those free cells, one within the column bound if there
\* is one, for forward and for backward edges alike; in every case the
\* returned cell was unoccupied.
C24_AdjacentFreeCell ==
    [][(pc = "bfs" /\ pending # <<>> /\ Head(pending) \notin visited) =>
          LET cell == placement'[Head(pending)]
              free == UnitCells(placement[bfsCur]) \ occupied
              maxCols == MaxColsOf(Cardinality(DOMAIN g.Objects))
              bounded == {c \in free : Abs(c.col) < maxCols}
          IN  /\ cell \notin occupied
              /\ free # {} => cell \in free
              /\ bounded # {} => cell \in bounded]_vars

\* ---------------------------------------------------------------------
\* localImprove inside gridPlacement (routinggraph.go 643-814)

\* The hub 0 of StarLeaves leaves, of which the leaves 1 and 2 point at the
\* hub and so are placed last, and node 3 without any edge.
CrowdGraph ==
    [Objects   |-> ObjectsOf(StarLeaves + 2, <<SmallObject, SmallObject>>),
     Edges     |-> <<[Src |-> 1, Dst |-> 0], [Src |-> 2, Dst |-> 0]>>
                   \o [k \in 1..(StarLeaves - 2) |-> [Src |-> 0, Dst |-> k + 3]],
     Direction |-> ""]

ImproveInit ==
    /\ pc = "place"
    /\ g \in RingGraphs \cup {CrowdGraph}
    /\ BfsIdle
    /\ info = <<>>
    /\ SimplifyIdle /\ DijkstraIdle /\ CorridorIdle /\ RouteIdle
    /\ NudgeIdle /\ CallIdle

SpecImprove == ImproveInit /\ [][PlaceNext]_vars

\* localImprove is running.
Improving == pc \in {"move", "swap"}

\* C25: every move or swap localImprove keeps strictly decreases the total
\* cost, every rejected candidate leaves the placement and the occupied
\* set as they were, so the cost never rises; there are at most maxIters
\* passes, and the pass that keeps no change is the last.
C25_ImproveDecreases ==
    [][Improving =>
          \E adj \in {Adjacency(g)} :
          \E before \in {totalCost(placement, occupied, adj)} :
          \E after \in {totalCost(placement', occupied', adj)} :
              /\ placement' # placement => after < before
              /\ placement' = placement => occupied' = occupied
              /\ after <= before
              /\ Improving' => li'.iter < maxIters
              /\ (pc = "swap" /\ li.j >= SwapBound /\ ~li.improved)
                     => pc' = "geometry"]_vars

\* ---------------------------------------------------------------------
\* sortAndSpreadPorts on one face (gridroute.go 304-389)

\* The largest number of ports on the face.
MaxFacePorts == 4

\* Lengths of the face, in units.
FaceLengths == {16, 20, 24, 32, 40, 48, 60, 100}

\* The orders in which the n neighbours lie along the face.
NeighbourOrders(n) ==
    {[k \in 1..n |-> k], [k \in 1..n |-> n + 1 - k],
     [k \in 1..n |-> ((k + 1) % n) + 1]}

\* Object 0 with a face of length len, and n neighbours beyond face f at
\* the places ord gives them along it.
SpreadInfo(len, f, n, ord) ==
    [objects |-> [i \in 0..n |->
        IF i = 0
        THEN [TopLeft |-> Pt(0, 0), Width |-> Px(len), Height |-> Px(len)]
        ELSE LET c == Px(200) * ord[i] - Px(400)
                 far == IF f \in {faceTop, faceLeft} THEN -Px(300) ELSE Px(300)
             IN  [TopLeft |-> IF f \in {faceTop, faceBottom}
                              THEN Pt(c, far) ELSE Pt(far, c),
                  Width |-> Px(60), Height |-> Px(40)]]]

SpreadInit ==
    /\ pc = "sortAndSpreadPorts"
    /\ \E len \in FaceLengths, f \in Faces, n \in 1..MaxFacePorts :
       \E ord \in NeighbourOrders(n), out \in BOOLEAN :
          callArgs = [fn    |-> "sortAndSpreadPorts",
                      gi    |-> SpreadInfo(len, f, n, ord),
                      edges |-> [k \in 1..n |->
                                    IF out THEN [Src |-> 0, Dst |-> k]
                                    ELSE [Src |-> k, Dst |-> 0]],
                      ports |-> [k \in 1..n |-> portInfo(k, out)],
                      f     |-> f]
    /\ callResult = <<>>
    /\ SimplifyIdle /\ DijkstraIdle /\ CorridorIdle /\ PlaceIdle
    /\ RouteIdle /\ NudgeIdle

\* sortAndSpreadPorts(ports, f, info, objIndex): the ports sorted by their
\* neighbours' centres, each with the position facePoint gives it.
SortAndSpreadPortsCall ==
    /\ pc = "sortAndSpreadPorts"
    /\ LET a == callArgs
           sorted == SortPorts(a.gi, a.edges, a.f, a.ports, 1, <<>>)
           n == Len(sorted)
       IN  callResult' = <<[i \in 1..n |->
               [edge |-> sorted[i].edge, isSource |-> sorted[i].isSource,
                pos |-> facePoint(a.gi.objects[0], a.f, i, n + 1)]]>>
    /\ pc' = "done"
    /\ UNCHANGED <<callArgs, simplifyVars, dijkstraVars, corridorVars,
                   placeVars, routeVars, nudgeVars>>

SpreadNext == SortAndSpreadPortsCall

SpecSpread == SpreadInit /\ [][SpreadNext]_vars

SpreadReturned ==
    pc = "done" /\ callArgs # <<>> /\ callArgs.fn = "sortAndSpreadPorts"

\* The distance of port i of the result from the start of the face.
AlongFace(i) ==
    IF callArgs.f \in {faceTop, faceBottom}
    THEN callResult[1][i].pos.x - callArgs.gi.objects[0].TopLeft.x
    ELSE callResult[1][i].pos.y - callArgs.gi.objects[0].TopLeft.y

\* minClearance := 8.0
minClearance == Px(8)

\* C26: on a face of length L with N ports, the ports come in the order of
\* their neighbours, evenly spaced and symmetric about the face centre
\* (port i at t = i/(N+1) of a usable span, i counted from 1); the corner
\* gap is 12 when the span left by it keeps the ports 8 apart; adjacent
\* ports are at least 8 apart whenever L >= 8*(N+1); a single port lies at
\* the face centre.
C26_SpreadPorts ==
    SpreadReturned =>
        LET r == callResult[1]
            n == Len(r)
            L == callArgs.gi.objects[0].Width
        IN  /\ \A i \in 1..(n - 1) :
                  ~lessPort(callArgs.gi, callArgs.edges, callArgs.f, r[i + 1], r[i])
            /\ \A i \in 1..(n - 1) :
                  AlongFace(i + 1) - AlongFace(i) = AlongFace(2) - AlongFace(1)
            /\ AlongFace(1) + AlongFace(n) = L
            /\ n >= 2 => AlongFace(1) >= AlongFace(2) - AlongFace(1)
            /\ (L - 2 * cornerGap >= minClearance * (n + 1)) =>
                  \A i \in 1..n :
                      AlongFace(i) * (n + 1) =
                          cornerGap * (n + 1) + (L - 2 * cornerGap) * i
            /\ (L >= minClearance * (n + 1)) =>
                  \A i \in 1..(n - 1) :
                      AlongFace(i + 1) - AlongFace(i) >= minClearance
            /\ n = 1 => 2 * AlongFace(1) = L

\* ---------------------------------------------------------------------
\* The ports gridRouteEdges assigns (gridroute.go 150-222)

\* The ports of the edges after steps 2 and 2b, each with its node, its
\* face and the node at the other end of its edge.
AssignedPorts ==
    IF pc \notin {"construct", "routedAll"} THEN {}
    ELSE UNION {{[edge |-> k, isSource |-> TRUE, node |-> g.Edges[k].Src,
                  face |-> edgePorts[k].srcFace, pos |-> edgePorts[k].src,
                  other |-> g.Edges[k].Dst],
                 [edge |-> k, isSource |-> FALSE, node |-> g.Edges[k].Dst,
                  face |-> edgePorts[k].dstFace, pos |-> edgePorts[k].dst,
                  other |-> g.Edges[k].Src]} : k \in DOMAIN edgePorts}

\* The coordinate of a point along face f.
AlongOf(f, p) == IF f \in {faceTop, faceBottom} THEN p.x ELSE p.y

\* Six nodes of one size: node 4 gets the edge 2 -> 4 straight from the
\* cell above it and the edge 3 -> 4 on the same face, and node 2 has a
\* second edge on the face the straight edge leaves from.
AlignEdges ==
    <<<<0, 3>>, <<0, 4>>, <<1, 4>>, <<1, 5>>, <<2, 4>>, <<2, 5>>, <<3, 4>>>>

AlignGraph ==
    [Objects   |-> ObjectsOf(6, <<SmallObject, SmallObject>>),
     Edges     |-> [k \in 1..Len(AlignEdges) |->
                       [Src |-> AlignEdges[k][1], Dst |-> AlignEdges[k][2]]],
     Direction |-> ""]

PortsInit ==
    /\ pc = "place"
    /\ g \in LayoutGraphs \cup {AlignGraph}
    /\ BfsIdle
    /\ info = <<>>
    /\ SimplifyIdle /\ DijkstraIdle /\ CorridorIdle /\ RouteIdle
    /\ NudgeIdle /\ CallIdle

SpecPorts == PortsInit /\ [][LayoutNext]_vars

\* C27: after the spreading and the alignment of straight edges, two ports
\* on the same face of the same node are at different points, and when
\* their neighbours' centres differ along the face the ports lie in the
\* same order.
C27_PortsDistinctOrdered ==
    \A p \in AssignedPorts : \A q \in AssignedPorts :
        (p # q /\ p.node = q.node /\ p.face = q.face) =>
            /\ p.pos # q.pos
            /\ AlongOf(p.face, Center(info, p.other))
                   < AlongOf(p.face, Center(info, q.other))
                 => AlongOf(p.face, p.pos) < AlongOf(p.face, q.pos)

\* ---------------------------------------------------------------------
\* The segments routeAllEdges records for a routed edge (router.go 205-221)

\* The graph edges the edge just routed runs along: from the source port's
\* node to the first node of the returned path, then along the path.
TraversedHops ==
    IF djPath = <<>> THEN {}
    ELSE {<<djSrc, djPath[1]>>}
             \cup {<<djPath[j], djPath[j + 1]>> : j \in 1..(Len(djPath) - 1)}

\* C28: once an edge is routed through the graph, every graph edge its path
\* runs along, the first hop from the source port's node to the first node
\* of the returned path included, is in routedSegments.
C28_CommitCoverage ==
    (pc \in {"nextEdge", "returned"}) =>
        \A hop \in TraversedHops :
            \E k \in DOMAIN routedSegments :
                routedSegments[k] \in {routedSeg(hop[1], hop[2]),
                                       routedSeg(hop[2], hop[1])}

\* ---------------------------------------------------------------------
\* orderEdgesOnSharedSegments (ordering.go 72-160)

\* At most MaxOrderingRoutes routes are ordered.
MaxOrderingRoutes == 3

\* Routes over the square of CorridorNodes: along the top border, along the
\* left border, entering either from a port 10 px off the border; and a
\* route of one point.
OrderingRouteSet ==
    {<<Pt(0, 0), Pt(Px(100), 0), Pt(Px(200), 0)>>,
     <<Pt(0, -Px(10)), Pt(0, 0), Pt(Px(100), 0)>>,
     <<Pt(Px(100), Px(10)), Pt(Px(100), 0), Pt(Px(200), 0)>>,
     <<Pt(0, 0), Pt(0, Px(100)), Pt(0, Px(200))>>,
     <<Pt(-Px(10), 0), Pt(0, 0), Pt(0, Px(100))>>,
     <<Pt(Px(10), Px(100)), Pt(0, Px(100)), Pt(0, Px(200))>>,
     <<Pt(Px(200), Px(200))>>}

\* rgEdgeKey of the pair of points i, i + 1 of a route: the nearest nodes,
\* the smaller id first; <<>> when the pair is skipped.
rgEdgeKey(nodes, pts, i) ==
    LET fromID == FindNearest(nodes, pts[i])
        toID == FindNearest(nodes, pts[i + 1])
    IN  IF fromID < 0 \/ toID < 0 \/ fromID = toID THEN <<>>
        ELSE <<Min2(fromID, toID), Max2(fromID, toID)>>

\* The routes recorded under a key, without duplicates.  Routes are visited
\* by index, so the deduplicated list is in increasing index.
segmentUsers(rts, nodes, key) ==
    {ri \in DOMAIN rts :
        \E i \in 1..(Len(rts[ri]) - 1) : rgEdgeKey(nodes, rts[ri], i) = key}

\* The keys of the map segmentUsers that have more than one user.
SharedKeys(rts, nodes) ==
    {key \in (DOMAIN nodes) \X (DOMAIN nodes) :
        Cardinality(segmentUsers(rts, nodes, key)) > 1}

\* edgeSortKey(route, useY)
edgeSortKey(route, useY) ==
    IF Len(route) = 0 THEN 0
    ELSE IF useY THEN route[1].y ELSE route[1].x

\* isHorizontal := absF(fromPos.Y-toPos.Y) < absF(fromPos.X-toPos.X)
isHorizontalKey(nodes, key) ==
    Abs(nodes[key[1]].y - nodes[key[2]].y) < Abs(nodes[key[1]].x - nodes[key[2]].x)

\* The rank of user u after sort.Slice (an insertion sort for a list this
\* short, which keeps equal keys in increasing index).
rankOf(rts, users, useY, u) ==
    Cardinality({v \in users :
        \/ edgeSortKey(rts[v], useY) < edgeSortKey(rts[u], useY)
        \/ edgeSortKey(rts[v], useY) = edgeSortKey(rts[u], useY) /\ v < u})

\* Step 3 for one key: an edge that has no key of the orientation yet gets
\* its rank.
storeKeys(rts, nodes, ordering, key) ==
    LET users == segmentUsers(rts, nodes, key)
        hor == isHorizontalKey(nodes, key)
        old == IF hor THEN ordering.hKeys ELSE ordering.vKeys
        new == [u \in DOMAIN old \cup users |->
                   IF u \in DOMAIN old THEN old[u] ELSE rankOf(rts, users, hor, u)]
    IN  IF hor THEN [ordering EXCEPT !.hKeys = new]
        ELSE [ordering EXCEPT !.vKeys = new]

\* The loop over the map in the order visit.
RECURSIVE OrderingAfter(_, _, _, _)
OrderingAfter(rts, nodes, visit, k) ==
    IF k = 0 THEN [hKeys |-> <<>>, vKeys |-> <<>>]
    ELSE storeKeys(rts, nodes, OrderingAfter(rts, nodes, visit, k - 1), visit[k])

\* The orders in which a range over the map may visit the keys.
VisitOrders(keys) ==
    {visit \in [1..Cardinality(keys) -> keys] :
        \A i, j \in DOMAIN visit : visit[i] = visit[j] => i = j}

\* The results orderEdgesOnSharedSegments can return.
orderEdgesOnSharedSegments(rts, nodes) ==
    IF Len(rts) <= 1 THEN {[hKeys |-> <<>>, vKeys |-> <<>>]}
    ELSE {OrderingAfter(rts, nodes, visit, Len(visit)) :
             visit \in VisitOrders(SharedKeys(rts, nodes))}

OrderingInit ==
    /\ pc = "orderEdgesOnSharedSegments"
    /\ \E n \in 1..MaxOrderingRoutes : \E rts \in [1..n -> OrderingRouteSet] :
          callArgs = [fn |-> "orderEdgesOnSharedSegments",
                      routes |-> rts, nodes |-> CorridorNodes(Px(200))]
    /\ callResult = <<>>
    /\ SimplifyIdle /\ DijkstraIdle /\ CorridorIdle /\ PlaceIdle
    /\ RouteIdle /\ NudgeIdle

\* return orderEdgesOnSharedSegments(routes, rg), the map visited in any order.
OrderEdgesCall ==
    /\ pc = "orderEdgesOnSharedSegments"
    /\ \E ordering \in orderEdgesOnSharedSegments(callArgs.routes, callArgs.nodes) :
          callResult' = <<ordering>>
    /\ pc' = "done"
    /\ UNCHANGED <<callArgs, simplifyVars, dijkstraVars, corridorVars,
                   placeVars, routeVars, nudgeVars>>

OrderingNext == OrderEdgesCall

SpecOrdering == OrderingInit /\ [][OrderingNext]_vars

\* C29: for fixed routes and routing graph the ordering returned is the one
\* every other order of visiting the shared segments gives: the horizontal
\* and the vertical key of every edge are the same.
C29_OrderingDeterministic ==
    (pc = "done" /\ callArgs # <<>> /\ callArgs.fn = "orderEdgesOnSharedSegments") =>
        \A other \in orderEdgesOnSharedSegments(callArgs.routes, callArgs.nodes) :
            \A e \in DOMAIN callArgs.routes :
                /\ HKey(other, e) = HKey(callResult[1], e)
                /\ VKey(other, e) = VKey(callResult[1], e)

\* ---------------------------------------------------------------------
\* Termination of dijkstraRoute (dijkstra.go 51-115)

\* Segments of edges routed earlier, whose crossings carry the penalty: none,
\* the corridor 3-4, the corridor 1-6.
PenaltySegments == {<<>>, <<routedSeg(3, 4)>>, <<routedSeg(1, 6)>>}

\* The corridor graph, whole or without the pair 1-2, cycles and all, with
\* the penalties in its weights, and a graph in which nodes 4..7 cannot be
\* reached.
TerminateGraphs ==
    {addCrossingPenalties(
         MakeRoutingGraph(CorridorNodes(Px(200)), CorridorPairs,
                          (1..Len(CorridorPairs)) \ drop), routed) :
        drop \in {{}, {2}}, routed \in PenaltySegments}
      \cup {MakeRoutingGraph(CorridorNodes(Px(200)), CorridorPairs, {1, 2, 3})}

TerminateInit ==
    /\ pc = "dijkstra"
    /\ rg \in TerminateGraphs
    /\ djSrc \in DOMAIN rg.Nodes
    /\ djDst \in DOMAIN rg.Nodes
    /\ dj = <<>>
    /\ djPath = <<>>
    /\ SimplifyIdle /\ CorridorIdle /\ PlaceIdle /\ RouteIdle
    /\ NudgeIdle /\ CallIdle

\* dijkstraRoute is a sequential loop: once called it keeps taking steps
\* until it returns.
SpecTerminate ==
    TerminateInit /\ [][DijkstraNext]_vars /\ WF_vars(DijkstraNext)

\* Following parent links from key cur reaches the source node without
\* coming to a key twice.
RECURSIVE ChainReaches(_, _, _, _)
ChainReaches(parent, cur, srcNode, seen) ==
    IF cur[1] = srcNode THEN TRUE
    ELSE IF cur \in seen \/ cur \notin DOMAIN parent THEN FALSE
    ELSE ChainReaches(parent, parent[cur], srcNode, seen \cup {cur})

\* One iteration of the loop expands at most one key, a key that was not
\* visited before, and no key ever leaves visited; an iteration that pops a
\* visited key changes nothing but the queue, which loses the popped state.
ExpandsOnce ==
    (pc = "loop" /\ dj' # <<>>) =>
        /\ dj.visited \subseteq dj'.visited
        /\ Cardinality(dj'.visited \ dj.visited) <= 1
        /\ dj'.visited = dj.visited =>
              /\ dj'.best = dj.best
              /\ dj'.parent = dj.parent
              /\ dj'.pq \subseteq dj.pq

\* C30: dijkstraRoute returns on every routing graph of the model, cyclic
\* ones and ones with crossing penalties in the weights included: each
\* (node, entry-orientation) key is expanded at most once, and from every
\* key with a parent the parent links lead to the source node without
\* coming to a key twice, so that reconstructPath returns too.
C30_DijkstraTerminates ==
    /\ [][ExpandsOnce]_vars
    /\ [](dj # <<>> =>
            \A key \in DOMAIN dj.parent : ChainReaches(dj.parent, key, djSrc, {}))
    /\ <>(pc = "routed")

\* dijkstraRoute has returned a path of 3 or more nodes on a graph whose
\* weights carry a crossing penalty, having visited 6 or more keys and
\* left states in the queue.
C30_Witness ==
    /\ pc = "routed"
    /\ dj # <<>>
    /\ dj.done
    /\ Len(djPath) >= 3
    /\ Cardinality(dj.visited) >= 6
    /\ dj.pq # {}
    /\ \E id \in DOMAIN rg.Adj : \E i \in DOMAIN rg.Adj[id] :
          rg.Adj[id][i].Weight >= crossingPenalty

====
